---- MODULE Spec2Model ----
(***************************************************************************)
(* Registry engine of cratery: the facade of src/src/application.rs        *)
(* sequencing the metadata store, the artifact store, the index and the    *)
(* docs job queue.  Each request is a task that advances from one await    *)
(* point to the next; tasks interleave at await points.                    *)
(***************************************************************************)
EXTENDS Integers, Sequences, FiniteSets, TLC

\* ---------------------------------------------------------------- bounds
NumProcs == 2
NumVersions == 2
MaxRequests == 2
MaxCrashes == 2
MaxTargets == 2
\* Connections of the pool (16 in the build).
DB_MAX_CONNECTIONS == 1
\* Length of the list of migrations handed to migrate_db, runs of migrate_db.
NumMigrations == 3
MaxRuns == 2

\* ------------------------------------------------------------- universes
Procs == 1..NumProcs
Crates == {"foo"}
VersionNames == <<"0.1.0", "0.2.0", "0.3.0", "0.4.0">>
Versions == {VersionNames[i] : i \in 1..NumVersions}
Keys == Crates \X Versions
Registered == {"alice", "bob"}
Creds == Registered \cup {"anon"}
Ops == {"publish", "yank", "unyank", "download", "regen"}

NoProc == 0
NoJob == [name |-> "", version |-> "", targets |-> <<>>]
NoRow == [present |-> FALSE, yanked |-> FALSE, dl |-> 0, docs |-> "none"]
NoReq == [op |-> "none", cred |-> "anon", key |-> <<"", "">>, valid |-> FALSE, id |-> 0,
          targets |-> <<>>]
NoRes == [kind |-> "none", at |-> "none"]
NoSeen == [idx |-> FALSE, lines |-> <<>>, meta |-> FALSE, rows |-> {}]
NoOwn == [users |-> Registered, op |-> "none", kind |-> "none", by |-> "anon", arg |-> {}]
NoSrv == [pc |-> "idle", ep |-> "none", path |-> <<>>, service |-> "none", cred |-> "anon",
          key |-> <<"", "">>, facade |-> 0, status |-> 0, ctype |-> "none",
          www |-> <<>>, body |-> "none", bytes |-> <<>>, read |-> FALSE, fault |-> FALSE,
          sparse |-> TRUE, git |-> TRUE, sent |-> 0]
NoBoot == [phase |-> "up", jobs |-> <<>>, next |-> 1, crashes |-> 0]
NoTgt == [c \in Crates |-> <<>>]
NoHist == [ok |-> 0, exists |-> 0, other |-> 0, conc |-> FALSE]
EmptyDb == [crates |-> {}, owners |-> [c \in Crates |-> {}], versions |-> [k \in Keys |-> NoRow]]

VARIABLES
    db,            \* committed content of the metadata store
    dbWork,        \* uncommitted view of the transaction holding the write lock
    dbWriter,      \* task holding the metadata store's single-writer lock
    storage,       \* artifact store: bytes (upload id) of each tarball, 0 = absent
    indexFiles,    \* index working tree: lines of each crate file
    indexCommits,  \* index Git history, oldest first
    indexLock,     \* task holding the index mutex
    queue,         \* docs job channel
    docsJob,       \* job the docs worker is processing
    pc,            \* await point of each request task
    req,           \* request each task is serving
    res,           \* error returned by the closure of a task that is rolling back
    nreq,          \* requests started so far
    hist,          \* per (name, version): outcomes of the publish calls completed
    seen,          \* what each get_crate_info task has read so far
    own,           \* user table and last response of the handlers taken as a whole
    srv,           \* the task serving the index and download routes
    boot,          \* the process: down, in launch or up, and the jobs launch re-enqueues
    tgt,           \* build targets of each crate
    mig,           \* schema of the metadata store and the run of migrate_db
    auth           \* the authentication being decided: credentials, token table, result

vars == <<db, dbWork, dbWriter, storage, indexFiles, indexCommits, indexLock,
          queue, docsJob, pc, req, res, nreq, hist, seen, own, srv, boot, tgt, mig, auth>>

\* Variables of the facade tasks, of the ownership requests and of the routes.
taskVars == <<pc, req, res, nreq, hist, seen>>
auxVars == <<own, srv, boot, tgt, mig, auth>>
otherVars == <<seen, own, srv, boot, tgt, mig, auth>>

\* ------------------------------------------------------- metadata store
\* What a task reads inside its transaction.
View(p) == IF dbWriter = p THEN dbWork ELSE db

DbCheckIsUser(cred) == IF cred \in Registered THEN "none" ELSE "Unauthorized"

DbCheckCrateExists(d, key) == IF d.versions[key].present THEN "none" ELSE "NotFound"

DbPublishErr(d, principal, key) ==
    IF key[1] \in d.crates /\ principal \notin d.owners[key[1]] THEN "Forbidden"
    ELSE IF d.versions[key].present THEN "AlreadyExists"
    ELSE "none"

DbPublishCrateVersion(d, principal, key) ==
    [crates |-> d.crates \cup {key[1]},
     owners |-> IF key[1] \in d.crates THEN d.owners
                ELSE [d.owners EXCEPT ![key[1]] = {principal}],
     versions |-> [d.versions EXCEPT ![key] =
                      [present |-> TRUE, yanked |-> FALSE, dl |-> 0, docs |-> "queued"]]]

DbOwnedErr(d, principal, key) ==
    IF ~d.versions[key].present THEN "NotFound"
    ELSE IF principal \notin d.owners[key[1]] THEN "Forbidden"
    ELSE "none"

DbSetYanked(d, key, flag) ==
    [d EXCEPT !.versions[key].yanked = flag]

DbIncrementDlCount(d, key) ==
    [d EXCEPT !.versions[key].dl = @ + 1]

DbRegenCrateVersionDoc(d, key) ==
    [d EXCEPT !.versions[key].docs = "queued"]

DbCrateVersions(d, c) == {k[2] : k \in {x \in Keys : x[1] = c /\ d.versions[x].present}}

\* Users that exist authenticate; a deleted user no longer does.
DbAuthenticate(users, cred) == IF cred \in users THEN "none" ELSE "Unauthorized"

DbAddOwnersErr(d, users, principal, c, new) ==
    IF c \notin d.crates THEN "NotFound"
    ELSE IF principal \notin d.owners[c] THEN "Forbidden"
    ELSE IF ~(new \subseteq users) THEN "NotFound"
    ELSE "none"

DbAddOwners(d, c, new) == [d EXCEPT !.owners[c] = @ \cup new]

\* Refuses the removal that would leave zero owners.
DbRemoveOwnersErr(d, principal, c, old) ==
    IF c \notin d.crates THEN "NotFound"
    ELSE IF principal \notin d.owners[c] THEN "Forbidden"
    ELSE IF d.owners[c] \ old = {} THEN "Conflict"
    ELSE "none"

DbRemoveOwners(d, c, old) == [d EXCEPT !.owners[c] = @ \ old]

\* A user is deleted only when owning no crates.
DbDeleteUserErr(d, users, target) ==
    IF target \notin users THEN "NotFound"
    ELSE IF \E c \in d.crates : target \in d.owners[c] THEN "Conflict"
    ELSE "none"

\* Keys in the order the metadata store lists them.
KeySeq == [i \in 1..NumVersions |-> <<"foo", VersionNames[i]>>]

\* get_undocumented_crates: one job per version whose docs state is queued.
DbGetUndocumentedCrates(d) ==
    LET ks == SelectSeq(KeySeq, LAMBDA k : d.versions[k].present /\ d.versions[k].docs = "queued")
    IN [i \in 1..Len(ks) |-> [name |-> ks[i][1], version |-> ks[i][2],
                               targets |-> tgt[ks[i][1]]]]

DbSetCrateTargetsErr(d, principal, c) ==
    IF c \notin d.crates THEN "NotFound"
    ELSE IF principal \notin d.owners[c] THEN "Forbidden"
    ELSE "none"

DbSetDocs(d, key, state) ==
    IF d.versions[key].present /\ d.versions[key].docs = "queued"
    THEN [d EXCEPT !.versions[key].docs = state]
    ELSE d

\* ---------------------------------------------------------------- index
IndexLine(key, id) == [vers |-> key[2], yanked |-> FALSE, cksum |-> id]

IndexAppend(files, key, id) ==
    [files EXCEPT ![key[1]] = Append(@, IndexLine(key, id))]

IndexVersions(lines) == [i \in 1..Len(lines) |-> lines[i].vers]

\* The versions get_crate_versions returns: the index lines that have a row.
JoinVersions(sn) == SelectSeq(sn.lines, LAMBDA v : v \in sn.rows)

LinesFor(key) ==
    {i \in 1..Len(indexFiles[key[1]]) : indexFiles[key[1]][i].vers = key[2]}

HasLine(key) == LinesFor(key) # {}

CommitMsg(kind, key) == <<kind, key[1], key[2]>>

PublishCommits == {i \in 1..Len(indexCommits) : indexCommits[i][1] = "publish"}

\* ------------------------------------------------------------- the tasks
\* JobCrate { name, version, targets }
JobCrate(key, targets) == [name |-> key[1], version |-> key[2], targets |-> targets]

\* get_crate_targets(name): the targets the metadata store holds for the crate.
DbGetCrateTargets(c) == tgt[c]

JobOf(key) == JobCrate(key, DbGetCrateTargets(key[1]))

InPublish(p) == pc[p] # "idle" /\ req[p].op = "publish"

Unlocked(p) == IF indexLock = p THEN NoProc ELSE indexLock

\* The closure of in_transaction returns Err: its locals (the index guard) are
\* dropped and the transaction is rolled back next.
Fail(p, kind) ==
    /\ pc' = [pc EXCEPT ![p] = "rollback"]
    /\ res' = [res EXCEPT ![p] = [kind |-> kind, at |-> pc[p]]]
    /\ indexLock' = Unlocked(p)

Goto(p, label) ==
    /\ pc' = [pc EXCEPT ![p] = label]
    /\ UNCHANGED res

\* The task ends: the response is sent and its locals are gone.
Return(p) ==
    /\ pc' = [pc EXCEPT ![p] = "idle"]
    /\ req' = [req EXCEPT ![p] = NoReq]
    /\ res' = [res EXCEPT ![p] = NoRes]
    /\ seen' = [seen EXCEPT ![p] = NoSeen]

Record(h, r, outcome) ==
    IF r.op # "publish" THEN h
    ELSE IF outcome = "Ok" THEN [h EXCEPT ![r.key].ok = @ + 1]
    ELSE IF outcome = "AlreadyExists" THEN [h EXCEPT ![r.key].exists = @ + 1]
    ELSE IF outcome \in {"Internal", "cancelled"} THEN [h EXCEPT ![r.key].other = @ + 1]
    ELSE h

\* A request arrives: acquire a connection and open the transaction.
Start(p, ops) ==
    /\ pc[p] = "idle"
    /\ nreq < MaxRequests
    /\ \E op \in ops, cred \in Creds, key \in Keys, valid \in BOOLEAN :
          /\ (op # "publish") => valid
          /\ req' = [req EXCEPT ![p] = [op |-> op, cred |-> cred, key |-> key,
                                        valid |-> valid, id |-> nreq + 1,
                                        targets |-> <<>>]]
          /\ hist' = IF op = "publish" /\ \E q \in Procs \ {p} :
                                            InPublish(q) /\ req[q].key = key
                     THEN [hist EXCEPT ![key].conc = TRUE]
                     ELSE hist
    /\ nreq' = nreq + 1
    /\ pc' = [pc EXCEPT ![p] = "auth"]
    /\ UNCHANGED <<res, db, dbWork, dbWriter, storage, indexFiles, indexCommits,
                   indexLock, queue, docsJob>>
    /\ UNCHANGED otherVars

Begin(p) == Start(p, Ops)

BeginPublish(p) == Start(p, {"publish"})

\* A registered user publishes a well-formed archive.
BeginUserPublish(p) ==
    /\ pc[p] = "idle"
    /\ nreq < MaxRequests
    /\ \E key \in Keys :
          /\ req' = [req EXCEPT ![p] = [op |-> "publish", cred |-> "alice", key |-> key,
                                        valid |-> TRUE, id |-> nreq + 1,
                                        targets |-> <<>>]]
          /\ hist' = IF \E q \in Procs \ {p} : InPublish(q) /\ req[q].key = key
                     THEN [hist EXCEPT ![key].conc = TRUE]
                     ELSE hist
    /\ nreq' = nreq + 1
    /\ pc' = [pc EXCEPT ![p] = "auth"]
    /\ UNCHANGED <<res, db, dbWork, dbWriter, storage, indexFiles, indexCommits,
                   indexLock, queue, docsJob>>
    /\ UNCHANGED otherVars

\* get_crate_content(auth_data, package, version) arrives.
BeginDownload(p) == Start(p, {"download"})

\* get_crate_info(auth_data, package) arrives.
BeginInfo(p) ==
    /\ pc[p] = "idle"
    /\ nreq < MaxRequests
    /\ \E cred \in Creds, c \in Crates :
          req' = [req EXCEPT ![p] = [op |-> "info", cred |-> cred, key |-> <<c, "">>,
                                     valid |-> TRUE, id |-> nreq + 1,
                                     targets |-> <<>>]]
    /\ nreq' = nreq + 1
    /\ pc' = [pc EXCEPT ![p] = "auth"]
    /\ UNCHANGED <<res, hist, db, dbWork, dbWriter, storage, indexFiles, indexCommits,
                   indexLock, queue, docsJob>>
    /\ UNCHANGED otherVars

\* First await of each operation after the authentication.
AfterAuth(op) ==
    CASE op = "publish" -> "lock"
      [] op = "info" -> "info_lock"
      [] OTHER -> "db"

\* Mutant: the credentials are not checked.
Authenticate_NoCheck(p) ==
    /\ pc[p] = "auth"
    /\ IF ~req[p].valid
       THEN Fail(p, "InvalidRequest")
       ELSE /\ Goto(p, AfterAuth(req[p].op))
            /\ UNCHANGED indexLock
    /\ UNCHANGED <<db, dbWork, dbWriter, storage, indexFiles, indexCommits,
                   queue, docsJob, req, nreq, hist>>
    /\ UNCHANGED otherVars

\* Mutant: the archive is parsed before the credentials are checked.
Authenticate_ParseFirst(p) ==
    /\ pc[p] = "auth"
    /\ IF ~req[p].valid
       THEN Fail(p, "InvalidRequest")
       ELSE IF DbCheckIsUser(req[p].cred) # "none"
       THEN Fail(p, "Unauthorized")
       ELSE /\ Goto(p, AfterAuth(req[p].op))
            /\ UNCHANGED indexLock
    /\ UNCHANGED <<db, dbWork, dbWriter, storage, indexFiles, indexCommits,
                   queue, docsJob, req, nreq, hist>>
    /\ UNCHANGED otherVars

\* app.authenticate(auth_data), then for a publish CrateUploadData::new(content).
Authenticate(p) ==
    /\ pc[p] = "auth"
    /\ IF DbCheckIsUser(req[p].cred) # "none"
       THEN Fail(p, "Unauthorized")
       ELSE IF ~req[p].valid
       THEN Fail(p, "InvalidRequest")
       ELSE /\ Goto(p, AfterAuth(req[p].op))
            /\ UNCHANGED indexLock
    /\ UNCHANGED <<db, dbWork, dbWriter, storage, indexFiles, indexCommits,
                   queue, docsJob, req, nreq, hist>>
    /\ UNCHANGED otherVars

\* Mutant: the publish goes on without waiting for the index mutex.
PublishLock_NoWait(p) ==
    /\ pc[p] = "lock"
    /\ indexLock' = p
    /\ Goto(p, "db")
    /\ UNCHANGED <<db, dbWork, dbWriter, storage, indexFiles, indexCommits,
                   queue, docsJob, req, nreq, hist>>
    /\ UNCHANGED otherVars

\* let index = self.index.lock().await
PublishLock(p) ==
    /\ pc[p] = "lock"
    /\ indexLock = NoProc
    /\ indexLock' = p
    /\ Goto(p, "db")
    /\ UNCHANGED <<db, dbWork, dbWriter, storage, indexFiles, indexCommits,
                   queue, docsJob, req, nreq, hist>>
    /\ UNCHANGED otherVars

\* Mutant: the error of the metadata insert is dropped and the publish goes on.
PublishDb_IgnoreError(p) ==
    /\ pc[p] = "db" /\ req[p].op = "publish"
    /\ dbWriter \in {NoProc, p}
    /\ dbWork' = DbPublishCrateVersion(View(p), req[p].cred, req[p].key)
    /\ dbWriter' = p
    /\ Goto(p, "store")
    /\ UNCHANGED <<db, storage, indexFiles, indexCommits, indexLock, queue, docsJob,
                   req, nreq, hist>>
    /\ UNCHANGED otherVars

\* Mutant: the tarball is uploaded before the metadata insert is attempted.
PublishDb_StoreFirst(p) ==
    /\ pc[p] = "db" /\ req[p].op = "publish"
    /\ dbWriter \in {NoProc, p}
    /\ storage' = [storage EXCEPT ![req[p].key] = req[p].id]
    /\ \/ /\ DbPublishErr(View(p), req[p].cred, req[p].key) # "none"
          /\ Fail(p, DbPublishErr(View(p), req[p].cred, req[p].key))
          /\ UNCHANGED <<dbWork, dbWriter>>
       \/ /\ DbPublishErr(View(p), req[p].cred, req[p].key) = "none"
          /\ dbWork' = DbPublishCrateVersion(View(p), req[p].cred, req[p].key)
          /\ dbWriter' = p
          /\ Goto(p, "store")
          /\ UNCHANGED indexLock
    /\ UNCHANGED <<db, indexFiles, indexCommits, queue, docsJob, req, nreq, hist>>
    /\ UNCHANGED otherVars

\* app.database.publish_crate_version(&principal, &package).await?
PublishDb(p) ==
    /\ pc[p] = "db" /\ req[p].op = "publish"
    /\ dbWriter \in {NoProc, p}
    /\ \/ /\ DbPublishErr(View(p), req[p].cred, req[p].key) # "none"
          /\ Fail(p, DbPublishErr(View(p), req[p].cred, req[p].key))
          /\ UNCHANGED <<dbWork, dbWriter>>
       \/ /\ Fail(p, "Internal")
          /\ UNCHANGED <<dbWork, dbWriter>>
       \/ /\ DbPublishErr(View(p), req[p].cred, req[p].key) = "none"
          /\ dbWork' = DbPublishCrateVersion(View(p), req[p].cred, req[p].key)
          /\ dbWriter' = p
          /\ Goto(p, "store")
          /\ UNCHANGED indexLock
    /\ UNCHANGED <<db, storage, indexFiles, indexCommits, queue, docsJob, req, nreq, hist>>
    /\ UNCHANGED otherVars

\* Mutant: the error of the upload is dropped and the publish goes on.
PublishStore_IgnoreError(p) ==
    /\ pc[p] = "store"
    /\ \/ storage' = [storage EXCEPT ![req[p].key] = req[p].id]
       \/ UNCHANGED storage
    /\ Goto(p, "index")
    /\ UNCHANGED <<db, dbWork, dbWriter, indexFiles, indexCommits, indexLock, queue,
                   docsJob, req, nreq, hist>>
    /\ UNCHANGED otherVars

\* self.get_service_storage().store_crate(&package.metadata, package.content).await?
PublishStore(p) ==
    /\ pc[p] = "store"
    /\ \/ /\ storage' = [storage EXCEPT ![req[p].key] = req[p].id]
          /\ Goto(p, "index")
          /\ UNCHANGED indexLock
       \/ /\ Fail(p, "Internal")
          /\ UNCHANGED storage
    /\ UNCHANGED <<db, dbWork, dbWriter, indexFiles, indexCommits, queue, docsJob,
                   req, nreq, hist>>
    /\ UNCHANGED otherVars

\* Mutant: the publish skips the index and goes on to read the targets.
PublishIndex_NoAppend(p) ==
    /\ pc[p] = "index"
    /\ Goto(p, "targets")
    /\ UNCHANGED <<db, dbWork, dbWriter, storage, indexFiles, indexCommits, indexLock,
                   queue, docsJob, req, nreq, hist>>
    /\ UNCHANGED otherVars

\* index.publish_crate_version(&index_data).await?
PublishIndex(p) ==
    /\ pc[p] = "index"
    /\ \/ /\ indexFiles' = IndexAppend(indexFiles, req[p].key, req[p].id)
          /\ indexCommits' = Append(indexCommits, CommitMsg("publish", req[p].key))
          /\ Goto(p, "targets")
          /\ UNCHANGED indexLock
       \/ /\ Fail(p, "Internal")
          /\ UNCHANGED <<indexFiles, indexCommits>>
    /\ UNCHANGED <<db, dbWork, dbWriter, storage, queue, docsJob, req, nreq, hist>>
    /\ UNCHANGED otherVars

\* Mutant: the job is built without reading the crate's targets.
PublishTargets_NoRead(p) ==
    /\ pc[p] = "targets" /\ req[p].op = "publish"
    /\ \/ /\ Goto(p, "send")
          /\ UNCHANGED indexLock
       \/ Fail(p, "Internal")
    /\ UNCHANGED <<db, dbWork, dbWriter, storage, indexFiles, indexCommits, queue,
                   docsJob, req, nreq, hist>>
    /\ UNCHANGED otherVars

\* let targets = app.database.get_crate_targets(&package.metadata.name).await?
PublishTargets(p) ==
    /\ pc[p] = "targets" /\ req[p].op = "publish"
    /\ \/ /\ Goto(p, "send")
          /\ req' = [req EXCEPT ![p].targets = DbGetCrateTargets(req[p].key[1])]
          /\ UNCHANGED indexLock
       \/ /\ Fail(p, "Internal")
          /\ UNCHANGED req
    /\ UNCHANGED <<db, dbWork, dbWriter, storage, indexFiles, indexCommits, queue,
                   docsJob, nreq, hist>>
    /\ UNCHANGED otherVars

\* self.docs_worker_sender.clone().send(JobCrate {..}).await?; Ok(r)
PublishSend(p) ==
    /\ pc[p] = "send" /\ req[p].op = "publish"
    /\ \/ /\ queue' = Append(queue, JobCrate(req[p].key, req[p].targets))
          /\ Goto(p, "commit")
          /\ indexLock' = Unlocked(p)
       \/ /\ Fail(p, "Internal")
          /\ UNCHANGED queue
    /\ UNCHANGED <<db, dbWork, dbWriter, storage, indexFiles, indexCommits,
                   docsJob, req, nreq, hist>>
    /\ UNCHANGED otherVars

\* Mutant: yanking deletes the version's row.
YankDb_Delete(p) ==
    /\ pc[p] = "db" /\ req[p].op = "yank"
    /\ dbWriter \in {NoProc, p}
    /\ \/ /\ DbOwnedErr(View(p), req[p].cred, req[p].key) # "none"
          /\ Fail(p, DbOwnedErr(View(p), req[p].cred, req[p].key))
          /\ UNCHANGED <<dbWork, dbWriter>>
       \/ /\ Fail(p, "Internal")
          /\ UNCHANGED <<dbWork, dbWriter>>
       \/ /\ DbOwnedErr(View(p), req[p].cred, req[p].key) = "none"
          /\ dbWork' = [View(p) EXCEPT !.versions[req[p].key] = NoRow]
          /\ dbWriter' = p
          /\ Goto(p, "commit")
          /\ UNCHANGED indexLock
    /\ UNCHANGED <<db, storage, indexFiles, indexCommits, queue, docsJob, req, nreq, hist>>
    /\ UNCHANGED otherVars

\* app.database.yank_crate_version(&principal, package, version).await
YankDb(p) ==
    /\ pc[p] = "db" /\ req[p].op = "yank"
    /\ dbWriter \in {NoProc, p}
    /\ \/ /\ DbOwnedErr(View(p), req[p].cred, req[p].key) # "none"
          /\ Fail(p, DbOwnedErr(View(p), req[p].cred, req[p].key))
          /\ UNCHANGED <<dbWork, dbWriter>>
       \/ /\ Fail(p, "Internal")
          /\ UNCHANGED <<dbWork, dbWriter>>
       \/ /\ DbOwnedErr(View(p), req[p].cred, req[p].key) = "none"
          /\ dbWork' = DbSetYanked(View(p), req[p].key, TRUE)
          /\ dbWriter' = p
          /\ Goto(p, "commit")
          /\ UNCHANGED indexLock
    /\ UNCHANGED <<db, storage, indexFiles, indexCommits, queue, docsJob, req, nreq, hist>>
    /\ UNCHANGED otherVars

\* app.database.unyank_crate_version(&principal, package, version).await
UnyankDb(p) ==
    /\ pc[p] = "db" /\ req[p].op = "unyank"
    /\ dbWriter \in {NoProc, p}
    /\ \/ /\ DbOwnedErr(View(p), req[p].cred, req[p].key) # "none"
          /\ Fail(p, DbOwnedErr(View(p), req[p].cred, req[p].key))
          /\ UNCHANGED <<dbWork, dbWriter>>
       \/ /\ Fail(p, "Internal")
          /\ UNCHANGED <<dbWork, dbWriter>>
       \/ /\ DbOwnedErr(View(p), req[p].cred, req[p].key) = "none"
          /\ dbWork' = DbSetYanked(View(p), req[p].key, FALSE)
          /\ dbWriter' = p
          /\ Goto(p, "commit")
          /\ UNCHANGED indexLock
    /\ UNCHANGED <<db, storage, indexFiles, indexCommits, queue, docsJob, req, nreq, hist>>
    /\ UNCHANGED otherVars

\* Mutant: the download is served without counting it.
DownloadDb_NoIncrement(p) ==
    /\ pc[p] = "db" /\ req[p].op = "download"
    /\ dbWriter \in {NoProc, p}
    /\ \/ /\ DbCheckCrateExists(View(p), req[p].key) # "none"
          /\ Fail(p, DbCheckCrateExists(View(p), req[p].key))
       \/ /\ DbCheckCrateExists(View(p), req[p].key) = "none"
          /\ Goto(p, "read")
          /\ UNCHANGED indexLock
    /\ UNCHANGED <<db, dbWork, dbWriter, storage, indexFiles, indexCommits, queue,
                   docsJob, req, nreq, hist>>
    /\ UNCHANGED otherVars

\* Mutant: the counter is raised before the version is looked up.
DownloadDb_IncrementFirst(p) ==
    /\ pc[p] = "db" /\ req[p].op = "download"
    /\ dbWriter \in {NoProc, p}
    /\ dbWork' = DbIncrementDlCount(View(p), req[p].key)
    /\ dbWriter' = p
    /\ IF DbCheckCrateExists(View(p), req[p].key) # "none"
       THEN Fail(p, DbCheckCrateExists(View(p), req[p].key))
       ELSE /\ Goto(p, "read")
            /\ UNCHANGED indexLock
    /\ UNCHANGED <<db, storage, indexFiles, indexCommits, queue, docsJob, req, nreq, hist>>
    /\ UNCHANGED otherVars

\* check_crate_exists(package, version).await?; increment_crate_version_dl_count(..).await?
DownloadDb(p) ==
    /\ pc[p] = "db" /\ req[p].op = "download"
    /\ dbWriter \in {NoProc, p}
    /\ \/ /\ DbCheckCrateExists(View(p), req[p].key) # "none"
          /\ Fail(p, DbCheckCrateExists(View(p), req[p].key))
          /\ UNCHANGED <<dbWork, dbWriter>>
       \/ /\ Fail(p, "Internal")
          /\ UNCHANGED <<dbWork, dbWriter>>
       \/ /\ DbCheckCrateExists(View(p), req[p].key) = "none"
          /\ dbWork' = DbIncrementDlCount(View(p), req[p].key)
          /\ dbWriter' = p
          /\ Goto(p, "read")
          /\ UNCHANGED indexLock
    /\ UNCHANGED <<db, storage, indexFiles, indexCommits, queue, docsJob, req, nreq, hist>>
    /\ UNCHANGED otherVars

\* self.get_service_storage().download_crate(package, version).await?
DownloadRead(p) ==
    /\ pc[p] = "read"
    /\ IF storage[req[p].key] = 0
       THEN Fail(p, "NotFound")
       ELSE \/ /\ Goto(p, "commit")
               /\ UNCHANGED indexLock
            \/ Fail(p, "Internal")
    /\ UNCHANGED <<db, dbWork, dbWriter, storage, indexFiles, indexCommits, queue,
                   docsJob, req, nreq, hist>>
    /\ UNCHANGED otherVars

\* app.database.regen_crate_version_doc(&principal, package, version).await?
RegenDb(p) ==
    /\ pc[p] = "db" /\ req[p].op = "regen"
    /\ dbWriter \in {NoProc, p}
    /\ \/ /\ DbOwnedErr(View(p), req[p].cred, req[p].key) # "none"
          /\ Fail(p, DbOwnedErr(View(p), req[p].cred, req[p].key))
          /\ UNCHANGED <<dbWork, dbWriter>>
       \/ /\ Fail(p, "Internal")
          /\ UNCHANGED <<dbWork, dbWriter>>
       \/ /\ DbOwnedErr(View(p), req[p].cred, req[p].key) = "none"
          /\ dbWork' = DbRegenCrateVersionDoc(View(p), req[p].key)
          /\ dbWriter' = p
          /\ Goto(p, "targets")
          /\ UNCHANGED indexLock
    /\ UNCHANGED <<db, storage, indexFiles, indexCommits, queue, docsJob, req, nreq, hist>>
    /\ UNCHANGED otherVars

\* let targets = app.database.get_crate_targets(package).await?
RegenTargets(p) ==
    /\ pc[p] = "targets" /\ req[p].op = "regen"
    /\ \/ /\ Goto(p, "send")
          /\ req' = [req EXCEPT ![p].targets = DbGetCrateTargets(req[p].key[1])]
          /\ UNCHANGED indexLock
       \/ /\ Fail(p, "Internal")
          /\ UNCHANGED req
    /\ UNCHANGED <<db, dbWork, dbWriter, storage, indexFiles, indexCommits, queue,
                   docsJob, nreq, hist>>
    /\ UNCHANGED otherVars

\* self.docs_worker_sender.clone().send(JobCrate {..}).await?; Ok(())
RegenSend(p) ==
    /\ pc[p] = "send" /\ req[p].op = "regen"
    /\ \/ /\ queue' = Append(queue, JobCrate(req[p].key, req[p].targets))
          /\ Goto(p, "commit")
          /\ UNCHANGED indexLock
       \/ /\ Fail(p, "Internal")
          /\ UNCHANGED queue
    /\ UNCHANGED <<db, dbWork, dbWriter, storage, indexFiles, indexCommits,
                   docsJob, req, nreq, hist>>
    /\ UNCHANGED otherVars

\* in_transaction: the closure returned Ok, transaction.commit().await
Commit(p) ==
    /\ pc[p] = "commit"
    /\ \/ /\ db' = View(p)
          /\ dbWork' = View(p)
          /\ hist' = Record(hist, req[p], "Ok")
       \/ /\ UNCHANGED db
          /\ dbWork' = IF dbWriter = p THEN db ELSE dbWork
          /\ hist' = Record(hist, req[p], "Internal")
    /\ dbWriter' = IF dbWriter = p THEN NoProc ELSE dbWriter
    /\ Return(p)
    /\ UNCHANGED <<storage, indexFiles, indexCommits, indexLock, queue, docsJob, nreq>>
    /\ UNCHANGED auxVars

\* in_transaction: the closure returned Err, transaction.rollback().await
Rollback(p) ==
    /\ pc[p] = "rollback"
    /\ dbWork' = IF dbWriter = p THEN db ELSE dbWork
    /\ dbWriter' = IF dbWriter = p THEN NoProc ELSE dbWriter
    /\ hist' = Record(hist, req[p], res[p].kind)
    /\ Return(p)
    /\ UNCHANGED <<db, storage, indexFiles, indexCommits, indexLock, queue, docsJob, nreq>>
    /\ UNCHANGED auxVars

\* The handler's future is dropped at an await point (the client went away):
\* the transaction is dropped, hence rolled back, and the index guard released.
Cancel(p) ==
    /\ pc[p] # "idle"
    /\ dbWork' = IF dbWriter = p THEN db ELSE dbWork
    /\ dbWriter' = IF dbWriter = p THEN NoProc ELSE dbWriter
    /\ indexLock' = Unlocked(p)
    /\ hist' = Record(hist, req[p], "cancelled")
    /\ Return(p)
    /\ UNCHANGED <<db, storage, indexFiles, indexCommits, queue, docsJob, nreq>>
    /\ UNCHANGED auxVars

\* The docs worker receives the next job of the channel.
DocsWorkerTake ==
    /\ boot.phase # "down"
    /\ docsJob = NoJob
    /\ queue # <<>>
    /\ docsJob' = Head(queue)
    /\ queue' = Tail(queue)
    /\ UNCHANGED <<db, dbWork, dbWriter, storage, indexFiles, indexCommits, indexLock,
                   pc, req, res, nreq, hist>>
    /\ UNCHANGED otherVars

\* The docs worker records the outcome of the build in its own transaction.
DocsWorkerFinish ==
    /\ boot.phase # "down"
    /\ docsJob # NoJob
    /\ dbWriter = NoProc
    /\ \E state \in {"done", "failed"} :
          /\ db' = DbSetDocs(db, <<docsJob.name, docsJob.version>>, state)
          /\ dbWork' = db'
    /\ docsJob' = NoJob
    /\ UNCHANGED <<dbWriter, storage, indexFiles, indexCommits, indexLock, queue,
                   pc, req, res, nreq, hist>>
    /\ UNCHANGED otherVars

\* get_crate_info: self.index.lock().await, evaluated as part of the argument
\* of get_crate_versions.
InfoLock(p) ==
    /\ pc[p] = "info_lock"
    /\ indexLock = NoProc
    /\ indexLock' = p
    /\ Goto(p, "info_index")
    /\ UNCHANGED <<db, dbWork, dbWriter, storage, indexFiles, indexCommits,
                   queue, docsJob, req, nreq, hist>>
    /\ UNCHANGED otherVars

\* get_crate_info: .get_crate_data(package).await?, the argument of
\* get_crate_versions.
InfoIndex(p) ==
    /\ pc[p] = "info_index"
    /\ \/ /\ seen' = [seen EXCEPT ![p].idx = TRUE,
                                  ![p].lines = IndexVersions(indexFiles[req[p].key[1]])]
          /\ Goto(p, "info_db")
          /\ UNCHANGED indexLock
       \/ /\ Fail(p, "Internal")
          /\ UNCHANGED seen
    /\ UNCHANGED <<db, dbWork, dbWriter, storage, indexFiles, indexCommits,
                   queue, docsJob, req, nreq, hist>>
    /\ UNCHANGED auxVars

\* Mutant: the index guard is never dropped.
InfoDb_LeakGuard(p) ==
    /\ pc[p] = "info_db"
    /\ \/ /\ seen' = [seen EXCEPT ![p].meta = TRUE,
                                  ![p].rows = DbCrateVersions(View(p), req[p].key[1])]
          /\ Goto(p, "info_meta")
          /\ UNCHANGED indexLock
       \/ /\ pc' = [pc EXCEPT ![p] = "rollback"]
          /\ res' = [res EXCEPT ![p] = [kind |-> "Internal", at |-> pc[p]]]
          /\ UNCHANGED <<seen, indexLock>>
    /\ UNCHANGED <<db, dbWork, dbWriter, storage, indexFiles, indexCommits,
                   queue, docsJob, req, nreq, hist>>
    /\ UNCHANGED auxVars

\* get_crate_info: app.database.get_crate_versions(package, <index data>).await?;
\* the index guard, a temporary of the statement, is dropped at its end.
InfoDb(p) ==
    /\ pc[p] = "info_db"
    /\ \/ /\ seen' = [seen EXCEPT ![p].meta = TRUE,
                                  ![p].rows = DbCrateVersions(View(p), req[p].key[1])]
          /\ Goto(p, "info_meta")
          /\ indexLock' = Unlocked(p)
       \/ /\ Fail(p, "Internal")
          /\ UNCHANGED seen
    /\ UNCHANGED <<db, dbWork, dbWriter, storage, indexFiles, indexCommits,
                   queue, docsJob, req, nreq, hist>>
    /\ UNCHANGED auxVars

\* get_crate_info: download_crate_metadata(package, &versions.last().unwrap().index.vers)
InfoMeta(p) ==
    /\ pc[p] = "info_meta"
    /\ IF JoinVersions(seen[p]) = <<>>
       THEN Fail(p, "Panic")
       ELSE IF storage[<<req[p].key[1], JoinVersions(seen[p])[Len(JoinVersions(seen[p]))]>>] = 0
       THEN Fail(p, "NotFound")
       ELSE \/ /\ Goto(p, "info_targets")
               /\ UNCHANGED indexLock
            \/ Fail(p, "Internal")
    /\ UNCHANGED <<db, dbWork, dbWriter, storage, indexFiles, indexCommits,
                   queue, docsJob, req, nreq, hist>>
    /\ UNCHANGED otherVars

\* get_crate_info: app.database.get_crate_targets(package).await?; Ok(CrateInfo {..})
InfoTargets(p) ==
    /\ pc[p] = "info_targets"
    /\ \/ /\ Goto(p, "commit")
          /\ UNCHANGED indexLock
       \/ Fail(p, "Internal")
    /\ UNCHANGED <<db, dbWork, dbWriter, storage, indexFiles, indexCommits,
                   queue, docsJob, req, nreq, hist>>
    /\ UNCHANGED otherVars

\* ------------------------------------------------ ownership requests
\* Each handler below runs in one transaction of the single-writer store and
\* is taken as a whole: in_transaction commits its writes when the closure
\* returns Ok and discards them when it returns an error.
Answer(op, kind, cred, arg) == [own EXCEPT !.op = op, !.kind = kind, !.by = cred, !.arg = arg]

OwnersIdle ==
    /\ boot.phase = "up"
    /\ dbWriter = NoProc /\ indexLock = NoProc /\ \A p \in Procs : pc[p] = "idle"

\* login_with_oauth_code: the first successful login creates the user.
LoginWithOauthCode ==
    /\ OwnersIdle
    /\ \E u \in Registered :
          own' = [Answer("login", "Ok", u, {u}) EXCEPT !.users = own.users \cup {u}]
    /\ UNCHANGED <<db, dbWork, dbWriter, storage, indexFiles, indexCommits, indexLock,
                   queue, docsJob, srv, boot, tgt, mig, auth>>
    /\ UNCHANGED taskVars

\* publish_crate_version, from the request to the commit or the rollback.
\* stage: the await at which a fault ends it ("none": no fault).
OwnersPublish ==
    /\ OwnersIdle
    /\ nreq < MaxRequests
    /\ nreq' = nreq + 1
    /\ \E cred \in Creds, key \in Keys, stage \in {"none", "store", "index", "send"} :
         LET err == IF DbAuthenticate(own.users, cred) # "none"
                    THEN DbAuthenticate(own.users, cred)
                    ELSE DbPublishErr(db, cred, key)
             id == nreq + 1
         IN IF err # "none"
            THEN /\ own' = Answer("publish", err, cred, {})
                 /\ UNCHANGED <<db, storage, indexFiles, indexCommits, queue>>
            ELSE /\ own' = Answer("publish", IF stage = "none" THEN "Ok" ELSE "Internal", cred, {})
                 /\ db' = IF stage = "none" THEN DbPublishCrateVersion(db, cred, key) ELSE db
                 /\ storage' = IF stage = "store" THEN storage
                               ELSE [storage EXCEPT ![key] = id]
                 /\ indexFiles' = IF stage \in {"store", "index"} THEN indexFiles
                                  ELSE IndexAppend(indexFiles, key, id)
                 /\ indexCommits' = IF stage \in {"store", "index"} THEN indexCommits
                                    ELSE Append(indexCommits, CommitMsg("publish", key))
                 /\ queue' = IF stage = "none" THEN Append(queue, JobOf(key)) ELSE queue
    /\ UNCHANGED <<dbWork, dbWriter, indexLock, docsJob, srv, boot, tgt, mig, auth>>
    /\ UNCHANGED <<pc, req, res, hist, seen>>

\* add_crate_owners(auth_data, package, new_users)
AddCrateOwners ==
    /\ OwnersIdle
    /\ \E cred \in Creds, c \in Crates, new \in (SUBSET Registered) \ {{}} :
         LET err == IF DbAuthenticate(own.users, cred) # "none"
                    THEN DbAuthenticate(own.users, cred)
                    ELSE DbAddOwnersErr(db, own.users, cred, c, new)
         IN /\ own' = Answer("add", IF err = "none" THEN "Ok" ELSE err, cred, new)
            /\ db' = IF err = "none" THEN DbAddOwners(db, c, new) ELSE db
    /\ UNCHANGED <<dbWork, dbWriter, storage, indexFiles, indexCommits, indexLock,
                   queue, docsJob, srv, boot, tgt, mig, auth>>
    /\ UNCHANGED taskVars

RemoveCrateOwners_NoConflict ==
    /\ OwnersIdle
    /\ \E cred \in Creds, c \in Crates, old \in (SUBSET Registered) \ {{}} :
         LET err == IF DbAuthenticate(own.users, cred) # "none"
                    THEN DbAuthenticate(own.users, cred)
                    ELSE IF DbRemoveOwnersErr(db, cred, c, old) = "Conflict" THEN "none"
                    ELSE DbRemoveOwnersErr(db, cred, c, old)
         IN /\ own' = Answer("remove", IF err = "none" THEN "Ok" ELSE err, cred, old)
            /\ db' = IF err = "none" THEN DbRemoveOwners(db, c, old) ELSE db
    /\ UNCHANGED <<dbWork, dbWriter, storage, indexFiles, indexCommits, indexLock,
                   queue, docsJob, srv, boot, tgt, mig, auth>>
    /\ UNCHANGED taskVars

\* remove_crate_owners(auth_data, package, old_users)
RemoveCrateOwners ==
    /\ OwnersIdle
    /\ \E cred \in Creds, c \in Crates, old \in (SUBSET Registered) \ {{}} :
         LET err == IF DbAuthenticate(own.users, cred) # "none"
                    THEN DbAuthenticate(own.users, cred)
                    ELSE DbRemoveOwnersErr(db, cred, c, old)
         IN /\ own' = Answer("remove", IF err = "none" THEN "Ok" ELSE err, cred, old)
            /\ db' = IF err = "none" THEN DbRemoveOwners(db, c, old) ELSE db
    /\ UNCHANGED <<dbWork, dbWriter, storage, indexFiles, indexCommits, indexLock,
                   queue, docsJob, srv, boot, tgt, mig, auth>>
    /\ UNCHANGED taskVars

\* delete_user(auth_data, target)
DeleteUser ==
    /\ OwnersIdle
    /\ \E cred \in Creds, target \in Registered :
         LET err == IF DbAuthenticate(own.users, cred) # "none"
                    THEN DbAuthenticate(own.users, cred)
                    ELSE DbDeleteUserErr(db, own.users, target)
         IN own' = [Answer("delete", IF err = "none" THEN "Ok" ELSE err, cred, {target})
                       EXCEPT !.users = IF err = "none" THEN own.users \ {target}
                                        ELSE own.users]
    /\ UNCHANGED <<db, dbWork, dbWriter, storage, indexFiles, indexCommits, indexLock,
                   queue, docsJob, srv, boot, tgt, mig, auth>>
    /\ UNCHANGED taskVars

\* ------------------------------------------- index and download routes
\* Request paths, one character per element.
ConfigJson == <<"/", "c", "o", "n", "f", "i", "g", ".", "j", "s", "o", "n">>
HeadPath == <<"/", "H", "E", "A", "D">>
InfoExcludePath == <<"/", "i", "n", "f", "o", "/", "e", "x", "c", "l", "u", "d", "e">>
DescriptionPath == <<"/", "d", "e", "s", "c", "r", "i", "p", "t", "i", "o", "n">>
MissingPath == <<"/", "3", "/", "b", "/", "b", "a", "r">>
CrateChars == [c \in Crates |-> <<"f", "o", "o">>]

\* Path of a crate's file inside the index tree.
ShardPath(c) ==
    LET n == CrateChars[c]
    IN CASE Len(n) = 1 -> <<"/", "1", "/">> \o n
         [] Len(n) = 2 -> <<"/", "2", "/">> \o n
         [] Len(n) = 3 -> <<"/", "3", "/", n[1], "/">> \o n
         [] OTHER -> <<"/", n[1], n[2], "/", n[3], n[4], "/">> \o n

GitFiles == {HeadPath, InfoExcludePath, DescriptionPath}
Paths == {ConfigJson, MissingPath} \cup GitFiles \cup {ShardPath(c) : c \in Crates}
Endpoints == {"sparse", "info_refs", "upload_pack"}
Services == {"git-upload-pack", "git-receive-pack", "none"}
WebDomain == "registry.example"

\* Index::get_index_file(path) is Some and the file can be opened.
IndexHasFile(files, path) ==
    \/ path = ConfigJson
    \/ path \in GitFiles
    \/ \E c \in Crates : path = ShardPath(c) /\ files[c] # <<>>

\* Lines of the file at a path of the index tree (crate files only).
FileLines(files, path) ==
    IF \E c \in Crates : path = ShardPath(c)
    THEN files[CHOOSE c \in Crates : path = ShardPath(c)]
    ELSE <<>>

LastIndexOf(seq, ch) ==
    IF \E i \in 1..Len(seq) : seq[i] = ch
    THEN CHOOSE i \in 1..Len(seq) : seq[i] = ch /\ \A j \in (i + 1)..Len(seq) : seq[j] # ch
    ELSE 0

\* std::path::Path::extension: the part of the file name after its last '.',
\* none when the name has no '.' or only a leading one. {} stands for None.
PathExtension(path) ==
    LET name == SubSeq(path, LastIndexOf(path, "/") + 1, Len(path))
        dot == LastIndexOf(name, ".")
    IN IF name = <<>> \/ dot <= 1 THEN {} ELSE {SubSeq(name, dot + 1, Len(name))}

ToAsciiLower(ch) ==
    CASE ch = "J" -> "j" [] ch = "S" -> "s" [] ch = "O" -> "o" [] ch = "N" -> "n"
      [] OTHER -> ch

EqIgnoreAsciiCase(a, b) ==
    /\ Len(a) = Len(b)
    /\ \A i \in 1..Len(a) : ToAsciiLower(a[i]) = ToAsciiLower(b[i])

StartsWith(seq, prefix) ==
    Len(seq) >= Len(prefix) /\ SubSeq(seq, 1, Len(prefix)) = prefix

\* index_serve_inner: the content type chosen for a served file.
ContentType(path) ==
    IF \E ext \in PathExtension(path) : EqIgnoreAsciiCase(ext, <<"j", "s", "o", "n">>)
    THEN "application/json"
    ELSE IF path = HeadPath \/ StartsWith(path, <<"/", "i", "n", "f", "o">>)
    THEN "text/plain; charset=utf-8"
    ELSE "application/octet-stream"

\* HTTP status of each error kind (200: no error).
HttpOf(kind) ==
    CASE kind = "none" -> 200
      [] kind = "InvalidRequest" -> 400
      [] kind = "Unauthorized" -> 401
      [] kind = "Forbidden" -> 403
      [] kind = "NotFound" -> 404
      [] kind = "AlreadyExists" -> 409
      [] kind = "Conflict" -> 409
      [] OTHER -> 500

WwwAuthenticate(domain) == <<"Basic realm=", domain>>

\* index_serve: the sparse protocol is refused, except for /config.json.
SparseGate_NoException(path, allow) == ~allow

SparseGate(path, allow) == path # ConfigJson /\ ~allow

\* index_serve_info_refs: only the smart upload service is answered.
InfoRefsAccepts_AnyService(service) == service # "none"

InfoRefsAccepts(service) == service = "git-upload-pack"

\* index_serve_check_auth: application.authenticate(auth_data)
IndexServeCheckAuth_Skip(cred) == "none"

IndexServeCheckAuth(cred) == DbCheckIsUser(cred)

\* api_v1_download_crate: if error.http == 401 { error.http = 403 }
DownloadStatus_Unchanged(http) == http

DownloadStatus(http) == IF http = 401 THEN 403 ELSE http

SrvTask == NumProcs + 1

\* index_serve_map_err: every error of the index routes carries the challenge.
ServeError(kind) ==
    [srv EXCEPT !.pc = "done", !.status = HttpOf(kind), !.ctype = "application/json",
                !.www = WwwAuthenticate(WebDomain), !.body = "error"]

ServeOk(ctype, body) ==
    [srv EXCEPT !.pc = "done", !.status = 200, !.ctype = ctype, !.body = body, !.read = TRUE]

\* The request an index route receives: its endpoint, path, service and
\* credentials.
ServeIncoming(ep, path, service, cred) ==
    [srv EXCEPT !.pc = "gate", !.ep = ep, !.cred = cred,
                !.path = IF ep = "sparse" THEN path ELSE <<>>,
                !.service = service]

\* A request reaches one of the index routes.
ServeRequest ==
    /\ srv.pc = "idle"
    /\ nreq < MaxRequests
    /\ nreq' = nreq + 1
    /\ \E ep \in Endpoints, path \in Paths, service \in Services, cred \in Creds :
          /\ (ep # "sparse") => path = ConfigJson
          /\ (ep # "info_refs") => service = "none"
          /\ srv' = ServeIncoming(ep, path, service, cred)
    /\ UNCHANGED <<db, dbWork, dbWriter, storage, indexFiles, indexCommits, indexLock,
                   queue, docsJob, own, boot, tgt, mig, auth>>
    /\ UNCHANGED <<pc, req, res, hist, seen>>

\* A registered user asks for a crate's index file or for the Git endpoints.
ServeCrateRequest ==
    /\ srv.pc = "idle"
    /\ nreq < MaxRequests
    /\ nreq' = nreq + 1
    /\ \E ep \in Endpoints, c \in Crates, service \in Services :
          /\ (ep # "info_refs") => service = "none"
          /\ srv' = ServeIncoming(ep, ShardPath(c), service, "alice")
    /\ UNCHANGED <<db, dbWork, dbWriter, storage, indexFiles, indexCommits, indexLock,
                   queue, docsJob, own, boot, tgt, mig, auth>>
    /\ UNCHANGED <<pc, req, res, hist, seen>>

\* The protocol switch at the head of index_serve, index_serve_info_refs and
\* index_serve_git_upload_pack.
ServeGate ==
    /\ srv.pc = "gate"
    /\ srv' = IF \/ srv.ep = "sparse" /\ SparseGate(srv.path, srv.sparse)
                 \/ srv.ep # "sparse" /\ ~srv.git
              THEN ServeError("NotFound")
              ELSE [srv EXCEPT !.pc = "auth"]
    /\ UNCHANGED <<db, dbWork, dbWriter, storage, indexFiles, indexCommits, indexLock,
                   queue, docsJob, own, boot, tgt, mig, auth>>
    /\ UNCHANGED taskVars

\* index_serve_check_auth(&state.application, &auth_data).await?
ServeCheckAuth ==
    /\ srv.pc = "auth"
    /\ srv' = IF IndexServeCheckAuth(srv.cred) # "none"
              THEN ServeError(IndexServeCheckAuth(srv.cred))
              ELSE [srv EXCEPT !.pc = "lock"]
    /\ UNCHANGED <<db, dbWork, dbWriter, storage, indexFiles, indexCommits, indexLock,
                   queue, docsJob, own, boot, tgt, mig, auth>>
    /\ UNCHANGED taskVars

\* let index = state.application.index.lock().await
ServeLock ==
    /\ srv.pc = "lock"
    /\ indexLock = NoProc
    /\ indexLock' = SrvTask
    /\ srv' = [srv EXCEPT !.pc = "inner"]
    /\ UNCHANGED <<db, dbWork, dbWriter, storage, indexFiles, indexCommits,
                   queue, docsJob, own, boot, tgt, mig, auth>>
    /\ UNCHANGED taskVars

\* index_serve: index_serve_inner(&index, path).await.map_err(map_err)?
IndexServe ==
    /\ srv.pc = "inner" /\ srv.ep = "sparse"
    /\ \/ srv' = IF IndexHasFile(indexFiles, srv.path)
                 THEN [ServeOk(ContentType(srv.path), "file") EXCEPT !.pc = "stream"]
                 ELSE [ServeError("NotFound") EXCEPT !.read = TRUE]
       \/ srv' = [ServeError("NotFound") EXCEPT !.read = TRUE, !.fault = TRUE]
    /\ indexLock' = NoProc
    /\ UNCHANGED <<db, dbWork, dbWriter, storage, indexFiles, indexCommits,
                   queue, docsJob, own, boot, tgt, mig, auth>>
    /\ UNCHANGED taskVars

\* Body::from_stream(ReaderStream::new(file)): the file opened by
\* index_serve_inner is read chunk by chunk (here: line by line) while the
\* response is sent, after index_serve has returned and dropped the guard.
ServeStream ==
    /\ srv.pc = "stream"
    /\ srv' = IF Len(srv.bytes) < Len(FileLines(indexFiles, srv.path))
              THEN [srv EXCEPT !.bytes = Append(@, FileLines(indexFiles, srv.path)[Len(@) + 1])]
              ELSE [srv EXCEPT !.pc = "done"]
    /\ UNCHANGED <<db, dbWork, dbWriter, storage, indexFiles, indexCommits, indexLock,
                   queue, docsJob, own, boot, tgt, mig, auth>>
    /\ UNCHANGED taskVars

\* index_serve_info_refs, after the lock
IndexServeInfoRefs ==
    /\ srv.pc = "inner" /\ srv.ep = "info_refs"
    /\ \/ srv' = IF InfoRefsAccepts(srv.service)
                 THEN ServeOk("application/x-git-upload-pack-advertisement", "advertisement")
                 ELSE ServeError("NotFound")
       \/ /\ InfoRefsAccepts(srv.service)
          /\ srv' = [ServeError("Internal") EXCEPT !.read = TRUE, !.fault = TRUE]
    /\ indexLock' = NoProc
    /\ UNCHANGED <<db, dbWork, dbWriter, storage, indexFiles, indexCommits,
                   queue, docsJob, own, boot, tgt, mig, auth>>
    /\ UNCHANGED taskVars

\* index_serve_git_upload_pack, after the lock
IndexServeGitUploadPack ==
    /\ srv.pc = "inner" /\ srv.ep = "upload_pack"
    /\ \/ srv' = ServeOk("application/x-git-upload-pack-result", "pack")
       \/ srv' = [ServeError("Internal") EXCEPT !.read = TRUE, !.fault = TRUE]
    /\ indexLock' = NoProc
    /\ UNCHANGED <<db, dbWork, dbWriter, storage, indexFiles, indexCommits,
                   queue, docsJob, own, boot, tgt, mig, auth>>
    /\ UNCHANGED taskVars

\* api_v1_download_crate: get_crate_content from the request to the commit
\* or the rollback, then the rewrite of the status.
\* stage: the await at which a fault ends get_crate_content ("none": no fault).
ApiV1DownloadCrate ==
    /\ srv.pc = "idle"
    /\ OwnersIdle
    /\ nreq < MaxRequests
    /\ nreq' = nreq + 1
    /\ \E cred \in Creds, key \in Keys, stage \in {"none", "db", "read"} :
         LET kind == IF DbCheckIsUser(cred) # "none" THEN DbCheckIsUser(cred)
                     ELSE IF stage = "db" THEN "Internal"
                     ELSE IF DbCheckCrateExists(db, key) # "none"
                     THEN DbCheckCrateExists(db, key)
                     ELSE IF storage[key] = 0 THEN "NotFound"
                     ELSE IF stage = "read" THEN "Internal"
                     ELSE "none"
         IN /\ db' = IF kind = "none" THEN DbIncrementDlCount(db, key) ELSE db
            /\ srv' = [srv EXCEPT !.pc = "done", !.ep = "download", !.cred = cred,
                                  !.key = key, !.facade = HttpOf(kind),
                                  !.status = DownloadStatus(HttpOf(kind)),
                                  !.ctype = IF kind = "none" THEN "application/octet-stream"
                                            ELSE "application/json",
                                  !.body = IF kind = "none" THEN "crate" ELSE "error",
                                  !.fault = stage # "none" /\ kind = "Internal"]
    /\ UNCHANGED <<dbWork, dbWriter, storage, indexFiles, indexCommits, indexLock,
                   queue, docsJob, own, boot, tgt, mig, auth>>
    /\ UNCHANGED <<pc, req, res, hist, seen>>

\* The response is sent; the task is free for the next request.
ServeRespond ==
    /\ srv.pc = "done"
    /\ srv' = [NoSrv EXCEPT !.sparse = srv.sparse, !.git = srv.git, !.sent = srv.sent + 1]
    /\ UNCHANGED <<db, dbWork, dbWriter, storage, indexFiles, indexCommits, indexLock,
                   queue, docsJob, own, boot, tgt, mig, auth>>
    /\ UNCHANGED taskVars

\* ------------------------------------------------ yank and unyank calls
\* The error of a yank or unyank call, "none" when it goes through:
\* authenticate first, then the store's own checks.
YankErr(cred, key, fault) ==
    IF DbAuthenticate(own.users, cred) # "none" THEN DbAuthenticate(own.users, cred)
    ELSE IF fault THEN "Internal"
    ELSE DbOwnedErr(db, cred, key)

\* The answer of a yank or unyank call asking for the flag `flag`; a call that
\* finds the flag already as asked answers the no-op outcome.
YankOutcome(err, key, flag) ==
    IF err # "none" THEN err
    ELSE IF db.versions[key].yanked = flag THEN "NoOp" ELSE "Ok"

\* Mutant: yanking flips the flag.
YankCrateVersion_Toggle ==
    /\ OwnersIdle
    /\ \E cred \in Creds, key \in Keys, fault \in BOOLEAN :
         LET err == YankErr(cred, key, fault)
         IN /\ own' = Answer("yank", IF err # "none" THEN err ELSE "Ok", cred, {key})
            /\ db' = IF err = "none" THEN DbSetYanked(db, key, ~db.versions[key].yanked)
                     ELSE db
    /\ UNCHANGED <<dbWork, dbWriter, storage, indexFiles, indexCommits, indexLock,
                   queue, docsJob, srv, boot, tgt, mig, auth>>
    /\ UNCHANGED taskVars

\* yank_crate_version(auth_data, package, version), from the request to the
\* commit or the rollback.
YankCrateVersion ==
    /\ OwnersIdle
    /\ \E cred \in Creds, key \in Keys, fault \in BOOLEAN :
         LET err == YankErr(cred, key, fault)
         IN /\ own' = Answer("yank", YankOutcome(err, key, TRUE), cred, {key})
            /\ db' = IF err = "none" THEN DbSetYanked(db, key, TRUE) ELSE db
    /\ UNCHANGED <<dbWork, dbWriter, storage, indexFiles, indexCommits, indexLock,
                   queue, docsJob, srv, boot, tgt, mig, auth>>
    /\ UNCHANGED taskVars

\* unyank_crate_version(auth_data, package, version), from the request to the
\* commit or the rollback.
UnyankCrateVersion ==
    /\ OwnersIdle
    /\ \E cred \in Creds, key \in Keys, fault \in BOOLEAN :
         LET err == YankErr(cred, key, fault)
         IN /\ own' = Answer("unyank", YankOutcome(err, key, FALSE), cred, {key})
            /\ db' = IF err = "none" THEN DbSetYanked(db, key, FALSE) ELSE db
    /\ UNCHANGED <<dbWork, dbWriter, storage, indexFiles, indexCommits, indexLock,
                   queue, docsJob, srv, boot, tgt, mig, auth>>
    /\ UNCHANGED taskVars

\* ------------------------------------------------------ build targets
\* configuration.self_builtin_targets, and every target a request can name.
BuiltinTargets == {"x86_64-unknown-linux-gnu"}
TargetNames == BuiltinTargets \cup {"wasm64-unknown-none"}
TargetLists == UNION {[1..n -> TargetNames] : n \in 0..MaxTargets}

\* set_crate_targets: for target in targets { if !..contains(target) { return Err } }
\* Position of the target the loop stops at, 0 when it runs to the end.
RECURSIVE UnknownTargetFrom(_, _)
UnknownTargetFrom(targets, i) ==
    IF i > Len(targets) THEN 0
    ELSE IF targets[i] \notin BuiltinTargets THEN i
    ELSE UnknownTargetFrom(targets, i + 1)

\* Mutant: only the first target of the request is checked.
SetCrateTargets_FirstOnly ==
    /\ OwnersIdle
    /\ \E cred \in Creds, c \in Crates, targets \in TargetLists, fault \in BOOLEAN :
         LET err == IF DbAuthenticate(own.users, cred) # "none"
                    THEN DbAuthenticate(own.users, cred)
                    ELSE IF targets # <<>> /\ targets[1] \notin BuiltinTargets THEN "InvalidRequest"
                    ELSE IF fault THEN "Internal"
                    ELSE DbSetCrateTargetsErr(db, cred, c)
         IN /\ own' = Answer("targets", IF err = "none" THEN "Ok" ELSE err, cred, targets)
            /\ tgt' = IF err = "none" THEN [tgt EXCEPT ![c] = targets] ELSE tgt
    /\ UNCHANGED <<db, dbWork, dbWriter, storage, indexFiles, indexCommits, indexLock,
                   queue, docsJob, srv, boot, mig, auth>>
    /\ UNCHANGED taskVars

\* set_crate_targets(auth_data, package, targets)
SetCrateTargets ==
    /\ OwnersIdle
    /\ \E cred \in Creds, c \in Crates, targets \in TargetLists, fault \in BOOLEAN :
         LET err == IF DbAuthenticate(own.users, cred) # "none"
                    THEN DbAuthenticate(own.users, cred)
                    ELSE IF UnknownTargetFrom(targets, 1) # 0 THEN "InvalidRequest"
                    ELSE IF fault THEN "Internal"
                    ELSE DbSetCrateTargetsErr(db, cred, c)
         IN /\ own' = Answer("targets", IF err = "none" THEN "Ok" ELSE err, cred, targets)
            /\ tgt' = IF err = "none" THEN [tgt EXCEPT ![c] = targets] ELSE tgt
    /\ UNCHANGED <<db, dbWork, dbWriter, storage, indexFiles, indexCommits, indexLock,
                   queue, docsJob, srv, boot, mig, auth>>
    /\ UNCHANGED taskVars

\* ---------------------------------------------------------- authenticate
\* configuration.self_service_login and configuration.self_service_token
SelfServiceLogin == "cratery"
SelfServiceToken == "self-secret"

TokenIds == {SelfServiceLogin, "token-1"}
TokenSecrets == {SelfServiceToken, "secret-1", "wrong"}

\* auth_data.token: Option<Token>
NoToken == [some |-> FALSE, id |-> "", secret |-> ""]
Tokens == {NoToken} \cup [some : {TRUE}, id : TokenIds, secret : TokenSecrets]

AuthUser(uid, principal, canWrite, canAdmin) ==
    [uid |-> uid, principal |-> principal, can_write |-> canWrite, can_admin |-> canAdmin]

\* The session cookie of the request: absent, unreadable, or carrying a user.
NoCookie == [state |-> "none", user |-> AuthUser(0, "", FALSE, FALSE)]
BadCookie == [state |-> "bad", user |-> AuthUser(0, "", FALSE, FALSE)]
Cookies ==
    {NoCookie, BadCookie}
        \cup {[state |-> "user", user |-> AuthUser(1, "alice", TRUE, TRUE)],
              [state |-> "user", user |-> AuthUser(7, "mallory", TRUE, TRUE)]}

\* Rows the token table may hold: a token of alice, and a row registered
\* under the reserved login with every capability.
TokenRows ==
    {[id |-> "token-1", secret |-> "secret-1", user |-> AuthUser(1, "alice", TRUE, FALSE)],
     [id |-> SelfServiceLogin, secret |-> SelfServiceToken,
      user |-> AuthUser(2, "bob", TRUE, TRUE)],
     [id |-> SelfServiceLogin, secret |-> "secret-1",
      user |-> AuthUser(2, "bob", TRUE, FALSE)]}

AuthOk(user, consulted) == [kind |-> "Ok", user |-> user, consulted |-> consulted]
AuthErr(kind, consulted) ==
    [kind |-> kind, user |-> AuthUser(0, "", FALSE, FALSE), consulted |-> consulted]

NoAuth == [pc |-> "idle", token |-> NoToken, cookie |-> NoCookie, rows |-> {},
           out |-> AuthErr("none", {})]

\* Database::check_token(id, secret): the user of the row with this id and
\* this secret.
DbCheckToken(rows, id, secret) ==
    IF \E r \in rows : r.id = id /\ r.secret = secret
    THEN AuthOk((CHOOSE r \in rows : r.id = id /\ r.secret = secret).user, {"tokens"})
    ELSE AuthErr("Unauthorized", {"tokens"})

\* auth_data.try_authenticate_cookie()?.ok_or_else(error_unauthorized)?
TryAuthenticateCookie(cookie) ==
    IF cookie.state = "user" THEN AuthOk(cookie.user, {"cookie"})
    ELSE AuthErr("Unauthorized", {"cookie"})

\* Mutant: the reserved token is recognised by its id alone.
AuthenticateToken_IdOnly(token, rows) ==
    IF token.id = SelfServiceLogin
    THEN AuthOk(AuthUser(-1, SelfServiceLogin, FALSE, FALSE), {})
    ELSE DbCheckToken(rows, token.id, token.secret)

\* ApplicationWithTransaction::authenticate_token
AuthenticateToken(token, rows) ==
    IF token.id = SelfServiceLogin /\ token.secret = SelfServiceToken
    THEN AuthOk(AuthUser(-1, SelfServiceLogin, FALSE, FALSE), {})
    ELSE DbCheckToken(rows, token.id, token.secret)

\* The cookie branch of authenticate: the cookie's user, if the metadata
\* store knows its principal.
AuthenticateCookie(cookie) ==
    LET c == TryAuthenticateCookie(cookie)
    IN IF c.kind # "Ok" THEN c
       ELSE IF DbCheckIsUser(c.user.principal) # "none"
       THEN AuthErr(DbCheckIsUser(c.user.principal), {"cookie", "users"})
       ELSE AuthOk(c.user, {"cookie", "users"})

\* Mutant: a request whose token is refused is authenticated by its cookie.
AuthenticateData_CookieFallback(token, cookie, rows) ==
    IF token.some /\ AuthenticateToken(token, rows).kind = "Ok"
    THEN AuthenticateToken(token, rows)
    ELSE AuthenticateCookie(cookie)

\* ApplicationWithTransaction::authenticate
AuthenticateData(token, cookie, rows) ==
    IF token.some THEN AuthenticateToken(token, rows)
    ELSE AuthenticateCookie(cookie)

otherThanAuth == <<db, dbWork, dbWriter, storage, indexFiles, indexCommits, indexLock,
                   queue, docsJob, pc, req, res, nreq, hist, seen, own, srv, boot, tgt, mig>>

\* A request arrives with its credentials; the token table holds some rows.
AuthRequest ==
    /\ auth.pc \in {"idle", "done"}
    /\ \E token \in Tokens, cookie \in Cookies, rows \in SUBSET TokenRows :
          auth' = [NoAuth EXCEPT !.pc = "auth", !.token = token, !.cookie = cookie,
                                 !.rows = rows]
    /\ UNCHANGED otherThanAuth

\* app.authenticate(auth_data).await
AuthDecide ==
    /\ auth.pc = "auth"
    /\ auth' = [auth EXCEPT !.pc = "done",
                            !.out = AuthenticateData(auth.token, auth.cookie, auth.rows)]
    /\ UNCHANGED otherThanAuth

\* ------------------------------------------------------------ migrations
\* A version string, as its dot-separated fields; NoVersion: no row.
NoVersion == <<>>

DigitOf(field) ==
    CASE field = "0" -> 0
      [] field = "1" -> 1
      [] field = "2" -> 2
      [] field = "3" -> 3
      [] field = "4" -> 4
      [] field = "5" -> 5
      [] field = "6" -> 6
      [] field = "7" -> 7
      [] field = "8" -> 8
      [] field = "9" -> 9
      [] OTHER -> -1

FieldOf(n) == <<"0", "1", "2", "3", "4", "5", "6", "7", "8", "9">>[n + 1]

\* VersionNumber::try_from(&str): three numeric fields, or an error.
VersionParses(str) == Len(str) = 3 /\ \A i \in 1..3 : DigitOf(str[i]) >= 0

VersionNumber(str) == [i \in 1..3 |-> DigitOf(str[i])]

\* version >= target on VersionNumber: field by field, major first.
VersionGeq(a, b) ==
    \/ a[1] > b[1]
    \/ a[1] = b[1] /\ a[2] > b[2]
    \/ a[1] = b[1] /\ a[2] = b[2] /\ a[3] >= b[3]

\* MIGRATIONS: targets "1.1.0", "1.2.0", ... in ascending order.
MIGRATIONS == [i \in 1..NumMigrations |-> [target |-> <<"1", FieldOf(i), "0">>]]

\* Schema versions a database may record when migrate_db starts.
StartVersions ==
    {MIGRATIONS[i].target : i \in 1..NumMigrations}
        \cup {<<"1", "0", "0">>, <<"1", "1", "5">>, <<"2", "0", "0">>, <<"1", "x">>}

NoMig == [table |-> FALSE, version |-> NoVersion, schema |-> <<>>,
          pc |-> "idle", cur |-> NoVersion, i |-> 0,
          txVersion |-> NoVersion, txSchema |-> <<>>,
          runs |-> 0, prev |-> "none", fail |-> 0, prevFail |-> 0,
          att |-> <<>>, log |-> <<>>, v0 |-> NoVersion, s0 |-> <<>>, t0 |-> FALSE]

otherThanMig == <<db, dbWork, dbWriter, storage, indexFiles, indexCommits, indexLock,
                  queue, docsJob, pc, req, res, nreq, hist, seen, own, srv, boot, tgt, auth>>

\* migrate_to_last is called: migrate_db(connection, MIGRATIONS) starts.
MigrateToLast ==
    /\ mig.pc = "idle"
    /\ mig.runs < MaxRuns
    /\ mig' = [mig EXCEPT !.pc = "read", !.runs = mig.runs + 1, !.cur = NoVersion, !.i = 0,
                          !.fail = 0,
                          !.att = <<>>, !.log = <<>>,
                          !.v0 = mig.version, !.s0 = mig.schema, !.t0 = mig.table]
    /\ UNCHANGED otherThanMig

\* get_schema_metadata(connection, SCHEMA_METADATA_VERSION): the row's value,
\* nothing when there is no row, an error when the table is missing or the
\* query fails.
GetSchemaMetadata(fault) ==
    IF ~mig.table \/ fault THEN [err |-> TRUE, value |-> NoVersion]
    ELSE [err |-> FALSE, value |-> mig.version]

\* let current_version = match get_schema_metadata(..).await { Ok(Some(version))
\* => Some(version), Ok(None) => None, _ => { .. } }
MigrateRead ==
    /\ mig.pc = "read"
    /\ \E fault \in BOOLEAN :
          mig' = IF GetSchemaMetadata(fault).err
                 THEN [mig EXCEPT !.pc = "create"]
                 ELSE [mig EXCEPT !.pc = "from", !.cur = GetSchemaMetadata(fault).value]
    /\ UNCHANGED otherThanMig

\* connection.execute(CREATE_METADATA_TABLE_SQL).await?; None
MigrateCreate ==
    /\ mig.pc = "create"
    /\ \/ mig' = [mig EXCEPT !.pc = "from", !.table = TRUE, !.cur = NoVersion]
       \/ mig' = [mig EXCEPT !.pc = "err"]
    /\ UNCHANGED otherThanMig

\* The loop over migrations.iter().enumerate().rev(): the 1-based position
\* of the last migration whose target the version has reached, 0 if none.
RECURSIVE LastReached(_, _, _)
LastReached(migrations, version, index) ==
    IF index = 0 THEN 0
    ELSE IF VersionGeq(version, VersionNumber(migrations[index].target)) THEN index
    ELSE LastReached(migrations, version, index - 1)

\* let start_from = match current_version { Some(version) => .., None => 0 }
StartFrom(migrations, current) ==
    IF current = NoVersion THEN 0
    ELSE LastReached(migrations, VersionNumber(current), Len(migrations))

\* start_from is computed; if start_from >= migrations.len() { return Ok(()) }
MigrateStartFrom ==
    /\ mig.pc = "from"
    /\ mig' = IF mig.cur # NoVersion /\ ~VersionParses(mig.cur)
              THEN [mig EXCEPT !.pc = "err"]
              ELSE IF StartFrom(MIGRATIONS, mig.cur) >= Len(MIGRATIONS)
              THEN [mig EXCEPT !.pc = "ok"]
              ELSE [mig EXCEPT !.pc = "script", !.i = StartFrom(MIGRATIONS, mig.cur) + 1]
    /\ UNCHANGED otherThanMig

\* in_transaction(..): transaction.borrow().await.execute(script.as_ref()).await?
MigrateScript ==
    /\ mig.pc = "script"
    /\ \/ mig' = [mig EXCEPT !.pc = "set", !.att = Append(mig.att, mig.i),
                             !.txSchema = Append(mig.schema, mig.i),
                             !.txVersion = mig.version]
       \/ mig' = [mig EXCEPT !.pc = "err", !.att = Append(mig.att, mig.i),
                             !.fail = mig.i]
    /\ UNCHANGED otherThanMig

\* set_schema_metadata(&mut *transaction.borrow().await, SCHEMA_METADATA_VERSION,
\* migration.target).await?: the row is inserted or updated in the transaction.
MigrateSet ==
    /\ mig.pc = "set"
    /\ \/ mig' = [mig EXCEPT !.pc = "commit", !.txVersion = MIGRATIONS[mig.i].target]
       \/ mig' = [mig EXCEPT !.pc = "err", !.fail = mig.i]
    /\ UNCHANGED otherThanMig

\* The closure returned Ok: the transaction commits and the loop goes on with
\* the next migration, or migrate_db returns Ok(()) after the last one.
MigrateCommit ==
    /\ mig.pc = "commit"
    /\ \/ mig' = [mig EXCEPT !.pc = IF mig.i = Len(MIGRATIONS) THEN "ok" ELSE "script",
                             !.schema = mig.txSchema, !.version = mig.txVersion,
                             !.log = Append(mig.log, mig.i),
                             !.i = mig.i + 1]
       \/ mig' = [mig EXCEPT !.pc = "err", !.fail = mig.i]
    /\ UNCHANGED otherThanMig

\* migrate_db has returned; its result is what launch sees.
MigrateReturn ==
    /\ mig.pc \in {"ok", "err"}
    /\ mig' = [mig EXCEPT !.pc = "idle", !.prev = IF mig.pc = "ok" THEN "Ok" ELSE "Err",
                          !.prevFail = mig.fail]
    /\ UNCHANGED otherThanMig

\* ------------------------------------------------- the artifact store
\* A tarball disappears from the artifact store, which lives outside the
\* registry's transactions.
StorageLoss ==
    /\ \E k \in Keys :
          /\ storage[k] # 0
          /\ storage' = [storage EXCEPT ![k] = 0]
    /\ UNCHANGED <<db, dbWork, dbWriter, indexFiles, indexCommits, indexLock, queue, docsJob>>
    /\ UNCHANGED taskVars
    /\ UNCHANGED auxVars

\* ------------------------------------------------- the connection pool
\* Tasks holding a pooled connection: those past db_pool.acquire() whose
\* transaction has not ended.
ConnectionsInUse == Cardinality({p \in Procs : pc[p] \notin {"idle", "acquire"}})

\* A publish or a get_crate_info request arrives and asks the pool for a
\* connection.
Arrive(p) ==
    /\ pc[p] = "idle"
    /\ nreq < MaxRequests
    /\ \E op \in {"publish", "info"}, key \in Keys :
          req' = [req EXCEPT ![p] = [op |-> op, cred |-> "alice",
                                     key |-> IF op = "info" THEN <<key[1], "">> ELSE key,
                                     valid |-> TRUE, id |-> nreq + 1,
                                     targets |-> <<>>]]
    /\ nreq' = nreq + 1
    /\ pc' = [pc EXCEPT ![p] = "acquire"]
    /\ UNCHANGED <<res, hist, db, dbWork, dbWriter, storage, indexFiles, indexCommits,
                   indexLock, queue, docsJob>>
    /\ UNCHANGED otherVars

\* self.db_pool.acquire().await?: the task waits until a connection is free.
Acquire(p) ==
    /\ pc[p] = "acquire"
    /\ ConnectionsInUse < DB_MAX_CONNECTIONS
    /\ Goto(p, "auth")
    /\ UNCHANGED <<db, dbWork, dbWriter, storage, indexFiles, indexCommits, indexLock,
                   queue, docsJob, req, nreq, hist>>
    /\ UNCHANGED otherVars

\* Application::authenticate, called by the index routes: a connection is
\* acquired, the credentials are checked in a transaction and the connection
\* goes back to the pool before the route takes the index mutex.
ServeAuthenticate ==
    /\ ConnectionsInUse < DB_MAX_CONNECTIONS
    /\ ServeCheckAuth

\* ---------------------------------------------------- crash and launch
\* The process dies: the channel, the job in the worker, the tasks and their
\* uncommitted transactions are lost; the three stores keep what they hold.
Crash ==
    /\ boot.phase # "down"
    /\ boot.crashes < MaxCrashes
    /\ boot' = [phase |-> "down", jobs |-> <<>>, next |-> 1, crashes |-> boot.crashes + 1]
    /\ queue' = <<>>
    /\ docsJob' = NoJob
    /\ dbWork' = db
    /\ dbWriter' = NoProc
    /\ indexLock' = NoProc
    /\ pc' = [p \in Procs |-> "idle"]
    /\ req' = [p \in Procs |-> NoReq]
    /\ res' = [p \in Procs |-> NoRes]
    /\ seen' = [p \in Procs |-> NoSeen]
    /\ srv' = [NoSrv EXCEPT !.sparse = srv.sparse, !.git = srv.git]
    /\ UNCHANGED <<db, storage, indexFiles, indexCommits, nreq, hist, own, tgt, mig, auth>>

\* Mutant: launch starts the docs worker and re-enqueues nothing.
LaunchRead_NoJobs ==
    /\ boot.phase = "down"
    /\ boot' = [boot EXCEPT !.phase = "launch", !.jobs = <<>>, !.next = 1]
    /\ UNCHANGED <<db, dbWork, dbWriter, storage, indexFiles, indexCommits, indexLock,
                   queue, docsJob, own, srv, tgt, mig, auth>>
    /\ UNCHANGED taskVars

\* launch: create_docs_worker(..); let jobs = app.get_undocumented_crates().await?
LaunchRead ==
    /\ boot.phase = "down"
    /\ boot' = [boot EXCEPT !.phase = "launch", !.jobs = DbGetUndocumentedCrates(db),
                            !.next = 1]
    /\ UNCHANGED <<db, dbWork, dbWriter, storage, indexFiles, indexCommits, indexLock,
                   queue, docsJob, own, srv, tgt, mig, auth>>
    /\ UNCHANGED taskVars

\* launch: for job in jobs { docs_worker_sender.send(job).await?; }
\* An error of send ends launch: the process exits without serving.
LaunchSend ==
    /\ boot.phase = "launch"
    /\ boot.next <= Len(boot.jobs)
    /\ \/ /\ queue' = Append(queue, boot.jobs[boot.next])
          /\ boot' = [boot EXCEPT !.next = @ + 1]
          /\ UNCHANGED docsJob
       \/ /\ boot.crashes < MaxCrashes
          /\ boot' = [phase |-> "down", jobs |-> <<>>, next |-> 1,
                      crashes |-> boot.crashes + 1]
          /\ queue' = <<>>
          /\ docsJob' = NoJob
    /\ UNCHANGED <<db, dbWork, dbWriter, storage, indexFiles, indexCommits, indexLock,
                   own, srv, tgt, mig, auth>>
    /\ UNCHANGED taskVars

\* launch: Ok(Arc::new(Self { .. })), the application is handed to the handlers.
LaunchDone ==
    /\ boot.phase = "launch"
    /\ boot.next > Len(boot.jobs)
    /\ boot' = [boot EXCEPT !.phase = "up"]
    /\ UNCHANGED <<db, dbWork, dbWriter, storage, indexFiles, indexCommits, indexLock,
                   queue, docsJob, own, srv, tgt, mig, auth>>
    /\ UNCHANGED taskVars

InitRegistry ==
    /\ db = EmptyDb
    /\ dbWork = EmptyDb
    /\ dbWriter = NoProc
    /\ storage = [k \in Keys |-> 0]
    /\ indexFiles = [c \in Crates |-> <<>>]
    /\ indexCommits = <<>>
    /\ indexLock = NoProc
    /\ queue = <<>>
    /\ docsJob = NoJob
    /\ pc = [p \in Procs |-> "idle"]
    /\ req = [p \in Procs |-> NoReq]
    /\ res = [p \in Procs |-> NoRes]
    /\ nreq = 0
    /\ hist = [k \in Keys |-> NoHist]
    /\ seen = [p \in Procs |-> NoSeen]
    /\ own = NoOwn
    /\ boot = NoBoot
    /\ tgt = NoTgt

Init == InitRegistry /\ srv = NoSrv /\ mig = NoMig /\ auth = NoAuth

\* configuration.index.allow_protocol_sparse and allow_protocol_git are read
\* from the configuration at launch and never change.
InitServe ==
    /\ InitRegistry
    /\ \E s \in BOOLEAN, g \in BOOLEAN : srv = [NoSrv EXCEPT !.sparse = s, !.git = g]
    /\ mig = NoMig
    /\ auth = NoAuth

\* The database migrate_db finds: without the metadata table, without a
\* version row, or with a recorded version; the scripts up to the recorded
\* version have been applied.
InitMigrate ==
    /\ InitRegistry
    /\ srv = NoSrv
    /\ auth = NoAuth
    /\ \E table \in BOOLEAN, version \in StartVersions \cup {NoVersion} :
          /\ ~table => version = NoVersion
          /\ mig = [NoMig EXCEPT !.table = table, !.version = version,
                                 !.schema = IF version # NoVersion /\ VersionParses(version)
                                            THEN [i \in 1..StartFrom(MIGRATIONS, version) |-> i]
                                            ELSE <<>>]

Next ==
    \/ DocsWorkerTake
    \/ DocsWorkerFinish
    \/ \E p \in Procs :
        \/ Begin(p)
        \/ Authenticate(p)
        \/ PublishLock(p)
        \/ PublishDb(p)
        \/ PublishStore(p)
        \/ PublishIndex(p)
        \/ PublishTargets(p)
        \/ PublishSend(p)
        \/ YankDb(p)
        \/ UnyankDb(p)
        \/ DownloadDb(p)
        \/ DownloadRead(p)
        \/ RegenDb(p)
        \/ RegenTargets(p)
        \/ RegenSend(p)
        \/ Commit(p)
        \/ Rollback(p)
        \/ Cancel(p)

Spec == Init /\ [][Next]_vars

\* Publishes running concurrently with get_crate_info requests.
NextInfo ==
    \E p \in Procs :
        \/ BeginPublish(p)
        \/ BeginInfo(p)
        \/ Authenticate(p)
        \/ PublishLock(p)
        \/ PublishDb(p)
        \/ PublishStore(p)
        \/ PublishIndex(p)
        \/ PublishTargets(p)
        \/ PublishSend(p)
        \/ InfoLock(p)
        \/ InfoIndex(p)
        \/ InfoDb(p)
        \/ InfoMeta(p)
        \/ InfoTargets(p)
        \/ Commit(p)
        \/ Rollback(p)
        \/ Cancel(p)

SpecInfo == Init /\ [][NextInfo]_vars

\* Publishes and the calls that change users and owners, one after the other.
NextOwners ==
    \/ LoginWithOauthCode
    \/ OwnersPublish
    \/ AddCrateOwners
    \/ RemoveCrateOwners
    \/ DeleteUser

SpecOwners == Init /\ [][NextOwners]_vars

\* The index and download routes, on a registry filled by publishes.
NextServe ==
    \/ OwnersPublish
    \/ ServeRequest
    \/ ServeGate
    \/ ServeCheckAuth
    \/ ServeLock
    \/ IndexServe
    \/ ServeStream
    \/ IndexServeInfoRefs
    \/ IndexServeGitUploadPack
    \/ ApiV1DownloadCrate
    \/ ServeRespond

SpecServe == InitServe /\ [][NextServe]_vars

\* Publishes running concurrently with the index routes.
NextMutex ==
    \/ \E p \in Procs :
          \/ BeginPublish(p)
          \/ Authenticate(p)
          \/ PublishLock(p)
          \/ PublishDb(p)
          \/ PublishStore(p)
          \/ PublishIndex(p)
          \/ PublishTargets(p)
          \/ PublishSend(p)
          \/ Commit(p)
          \/ Rollback(p)
          \/ Cancel(p)
    \/ ServeCrateRequest
    \/ ServeGate
    \/ ServeCheckAuth
    \/ ServeLock
    \/ IndexServe
    \/ ServeStream
    \/ IndexServeInfoRefs
    \/ IndexServeGitUploadPack
    \/ ServeRespond

SpecMutex == Init /\ [][NextMutex]_vars

\* Publishes, get_crate_info requests and index requests sharing the pool and
\* the index mutex; every step that is enabled is eventually taken.
PoolStep(p) ==
    \/ Acquire(p)
    \/ Authenticate(p)
    \/ PublishLock(p)
    \/ PublishDb(p)
    \/ PublishStore(p)
    \/ PublishIndex(p)
    \/ PublishTargets(p)
    \/ PublishSend(p)
    \/ InfoLock(p)
    \/ InfoIndex(p)
    \/ InfoDb(p)
    \/ InfoMeta(p)
    \/ InfoTargets(p)
    \/ Commit(p)
    \/ Rollback(p)

ServeStep ==
    \/ ServeGate
    \/ ServeAuthenticate
    \/ ServeLock
    \/ IndexServe
    \/ ServeStream
    \/ IndexServeInfoRefs
    \/ IndexServeGitUploadPack
    \/ ServeRespond

NextPool ==
    \/ \E p \in Procs : Arrive(p) \/ PoolStep(p)
    \/ ServeCrateRequest
    \/ ServeStep

SpecPool ==
    /\ Init
    /\ [][NextPool]_vars
    /\ \A p \in Procs : WF_vars(PoolStep(p))
    /\ WF_vars(ServeStep)

\* Requests being authenticated, one after the other.
NextAuth ==
    \/ AuthRequest
    \/ AuthDecide

SpecAuth == Init /\ [][NextAuth]_vars

\* Runs of migrate_db, one after the other, on one database.
NextMigrate ==
    \/ MigrateToLast
    \/ MigrateRead
    \/ MigrateCreate
    \/ MigrateStartFrom
    \/ MigrateScript
    \/ MigrateSet
    \/ MigrateCommit
    \/ MigrateReturn

SpecMigrate == InitMigrate /\ [][NextMigrate]_vars

\* Downloads of versions whose tarball may have gone.
NextContent ==
    \/ OwnersPublish
    \/ StorageLoss
    \/ \E p \in Procs :
        \/ BeginDownload(p)
        \/ Authenticate(p)
        \/ DownloadDb(p)
        \/ DownloadRead(p)
        \/ Commit(p)
        \/ Rollback(p)

SpecContent == Init /\ [][NextContent]_vars

\* Publishes, downloads and sequences of yank and unyank calls.
NextYank ==
    \/ OwnersPublish
    \/ YankCrateVersion
    \/ UnyankCrateVersion
    \/ ApiV1DownloadCrate
    \/ ServeRespond

SpecYank == Init /\ [][NextYank]_vars

\* Publishes running between calls that set the build targets of a crate.
NextDocs ==
    \/ SetCrateTargets
    \/ \E p \in Procs :
        \/ BeginUserPublish(p)
        \/ Authenticate(p)
        \/ PublishLock(p)
        \/ PublishDb(p)
        \/ PublishStore(p)
        \/ PublishIndex(p)
        \/ PublishTargets(p)
        \/ PublishSend(p)
        \/ Commit(p)
        \/ Rollback(p)
        \/ Cancel(p)

SpecDocs == Init /\ [][NextDocs]_vars

\* Publishes and the calls that set the build targets of a crate.
NextTargets ==
    \/ OwnersPublish
    \/ SetCrateTargets

SpecTargets == Init /\ [][NextTargets]_vars

\* Publishes, the docs worker, crashes and restarts.
NextLaunch ==
    \/ OwnersPublish
    \/ DocsWorkerTake
    \/ DocsWorkerFinish
    \/ Crash
    \/ LaunchRead
    \/ LaunchSend
    \/ LaunchDone

\* The runtime keeps polling launch and the docs worker task, and after
\* MaxCrashes the process stays up.
SpecLaunch ==
    /\ Init /\ [][NextLaunch]_vars
    /\ WF_vars(LaunchRead) /\ WF_vars(LaunchSend) /\ WF_vars(LaunchDone)
    /\ WF_vars(DocsWorkerTake) /\ WF_vars(DocsWorkerFinish)
\* ------------------------------------------------------------ properties
KeyOfJob(job) == <<job.name, job.version>>

NoPublishInProgress == \A p \in Procs : ~InPublish(p)

HasPublishCommit(key) == \E i \in PublishCommits : indexCommits[i] = CommitMsg("publish", key)

\* Footprint of the upload id in the artifact store and in the index.
NoTraceIn(st, files, key, id) ==
    /\ st[key] # id
    /\ \A i \in 1..Len(files[key[1]]) :
          files[key[1]][i].vers = key[2] => files[key[1]][i].cksum # id

RECURSIVE SumOk(_)
SumOk(S) ==
    IF S = {} THEN 0
    ELSE LET k == CHOOSE x \in S : TRUE IN hist[k].ok + SumOk(S \ {k})

\* C1: whenever no publish is in progress, a (crate, version) has a committed
\* metadata row iff it has an index line iff its tarball is in the artifact store.
C1_ThreePlanesAgree ==
    NoPublishInProgress =>
        \A k \in Keys : /\ db.versions[k].present <=> HasLine(k)
                        /\ HasLine(k) <=> (storage[k] # 0)

\* C2: a publish that returns an error (closure error followed by the rollback,
\* or a failed commit) leaves no tarball, no index line and no row of its own.
C2_FailedPublishLeavesNoState ==
    [][\A p \in Procs :
          (req[p].op = "publish" /\ (Rollback(p) \/ (Commit(p) /\ db' = db)))
              => /\ NoTraceIn(storage', indexFiles', req[p].key, req[p].id)
                 /\ db' = db]_vars

\* C3: when the index append/commit of a publish fails, then after the publish
\* has returned the tarball it uploaded is gone and the version has no row.
C3_IndexFailureDeletesTarball ==
    [][\A p \in Procs :
          (req[p].op = "publish" /\ res[p].at = "index" /\ Rollback(p))
              => /\ storage'[req[p].key] # req[p].id
                 /\ ~db'.versions[req[p].key].present]_vars

\* C4: at every moment every version committed in the metadata store already
\* has its index line, its publish commit and its tarball.
C4_CommittedHasIndexAndTarball ==
    \A k \in Keys :
        db.versions[k].present =>
            /\ HasLine(k)
            /\ HasPublishCommit(k)
            /\ storage[k] # 0

C4_Witness ==
    \E k \in Keys : db.versions[k].present /\ HasLine(k) /\ storage[k] # 0
\* C5: when every publish call of one (name, version) has returned Ok or
\* AlreadyExists, exactly one returned Ok and the index has exactly one line
\* for that version.
C5_ExactlyOneOkPerVersion ==
    \A k \in Keys :
        (/\ \A p \in Procs : ~(InPublish(p) /\ req[p].key = k)
         /\ hist[k].other = 0
         /\ hist[k].ok + hist[k].exists > 0)
            => /\ hist[k].ok = 1
               /\ Cardinality(LinesFor(k)) = 1

C5_Witness ==
    \E k \in Keys :
        /\ \A p \in Procs : ~(InPublish(p) /\ req[p].key = k)
        /\ hist[k].conc
        /\ hist[k].other = 0
        /\ hist[k].ok = 1
        /\ hist[k].exists = 1
        /\ Cardinality(LinesFor(k)) = 1

\* C6: whenever no publish is in progress, the number of publish commits in
\* the index history equals the number of publish calls that returned Ok.
C6_OneCommitPerSuccess ==
    NoPublishInProgress => Cardinality(PublishCommits) = SumOk(Keys)

\* C7: the yanked flag of every index line equals the yanked flag of the
\* committed metadata row of its version.
C7_IndexYankedMatchesMetadata ==
    \A k \in Keys :
        db.versions[k].present =>
            \A i \in LinesFor(k) : indexFiles[k[1]][i].yanked = db.versions[k].yanked

\* C8: whenever the docs worker can dequeue a job, the version the job names
\* is committed in the metadata store.
C8_JobOnlyAfterCommit ==
    queue # <<>> => db.versions[KeyOfJob(Head(queue))].present

\* C9: a publish whose enqueue fails goes on to its commit (it is not failed by
\* the enqueue), and once it has returned its version is committed.
C9_EnqueueFailureDoesNotFailPublish ==
    [][\A p \in Procs :
          /\ (PublishSend(p) /\ queue' = queue) => pc'[p] = "commit"
          /\ (req[p].op = "publish" /\ res[p].at = "send" /\ Rollback(p))
                 => db'.versions[req[p].key].present]_vars

\* C10: a publish cancelled after its index commit still commits its metadata
\* row.
C10_CancelAfterIndexStillCommits ==
    [][\A p \in Procs :
          (req[p].op = "publish" /\ pc[p] \in {"targets", "send", "commit"} /\ Cancel(p))
              => db'.versions[req[p].key].present]_vars
\* C12: a publish of an already published (name, version) fails with
\* AlreadyExists at the metadata insert, before it has written anything: the
\* index has no line and the artifact store no tarball of this upload, and
\* the tarball stored before is still there.
C12_RepublishWritesNothing ==
    \A p \in Procs :
        (req[p].op = "publish" /\ pc[p] = "rollback" /\ res[p].kind = "AlreadyExists")
            => /\ res[p].at = "db"
               /\ NoTraceIn(storage, indexFiles, req[p].key, req[p].id)
               /\ storage[req[p].key] # 0
               /\ HasLine(req[p].key)

C12_Witness ==
    \E p \in Procs :
        /\ req[p].op = "publish" /\ pc[p] = "rollback" /\ res[p].kind = "AlreadyExists"
        /\ storage[req[p].key] \notin {0, req[p].id}
        /\ Cardinality(LinesFor(req[p].key)) = 1

\* C13: a publish gets past its upload only if the upload succeeded, so a
\* failed upload reaches neither the index nor the docs queue; and when the
\* upload failed the version (and the crate and ownership rows of a first
\* publish) is not committed and the index has no line of this upload.
C13_UploadFailureRollsBack ==
    \A p \in Procs :
        req[p].op = "publish" =>
            /\ pc[p] \in {"index", "targets", "send", "commit"}
                  => storage[req[p].key] = req[p].id
            /\ (pc[p] = "rollback" /\ res[p].at = "store")
                  => /\ ~db.versions[req[p].key].present
                     /\ (\A k \in Keys : k[1] = req[p].key[1] => ~db.versions[k].present)
                            => /\ req[p].key[1] \notin db.crates
                               /\ db.owners[req[p].key[1]] = {}
                     /\ NoTraceIn(storage, indexFiles, req[p].key, req[p].id)
                     /\ \A i \in 1..Len(queue) :
                            queue[i] = JobOf(req[p].key) => HasPublishCommit(req[p].key)

C13_Witness ==
    \E p \in Procs :
        /\ req[p].op = "publish" /\ pc[p] = "rollback" /\ res[p].at = "store"
        /\ dbWriter = p
        /\ dbWork.versions[req[p].key].present

C11_MetadataBeforeIndex ==
    \A p \in Procs :
        req[p].op = "info" =>
            /\ seen[p].idx => seen[p].meta
            /\ \A i \in 1..Len(JoinVersions(seen[p])) : JoinVersions(seen[p])[i] \in seen[p].rows
\* C15: every crate always has at least one owner, and every owner is a user;
\* the first publish of a crate makes the publisher its only owner, a removal
\* answered Conflict changes nothing and is the one that would have left no
\* owner, and a deleted user owns no crate.
C15_OwnersStep ==
    /\ \A c \in Crates : (c \in db'.crates /\ c \notin db.crates) =>
            (own'.op = "publish" /\ db'.owners[c] = {own'.by})
    /\ (own'.op = "remove" /\ own'.kind = "Conflict") =>
            (db' = db /\ \E c \in db.crates : db.owners[c] \ own'.arg = {})
    /\ \A u \in own.users \ own'.users : \A c \in db'.crates : u \notin db'.owners[c]

C15_CrateAlwaysHasOwner ==
    /\ [](\A c \in db.crates : db.owners[c] # {} /\ db.owners[c] \subseteq own.users)
    /\ [][C15_OwnersStep]_vars

\* bob, the only owner left of foo, is refused his own removal.
C15_Witness ==
    /\ db.owners["foo"] = {"bob"}
    /\ own.op = "remove" /\ own.kind = "Conflict" /\ own.by = "bob" /\ own.arg = {"bob"}
    /\ "alice" \in own.users
\* A response of one of the index routes, or of the download route, is ready.
Served(eps) == srv.pc = "done" /\ srv.ep \in eps

GitEndpoints == {"info_refs", "upload_pack"}

ProtocolEnabled ==
    IF srv.ep = "sparse" THEN srv.sparse \/ srv.path = ConfigJson ELSE srv.git

\* C16: a sparse GET that is served answers a crate's index file with its
\* lines and Content-Type application/json, HEAD and info/* with text/plain;
\* charset=utf-8, and every other path (config.json left aside) with
\* application/octet-stream.
C16_SparseContentType ==
    (Served({"sparse"}) /\ srv.status = 200) =>
        IF \E c \in Crates : srv.path = ShardPath(c)
        THEN srv.ctype = "application/json" /\ srv.body = "file"
        ELSE IF srv.path = HeadPath \/ StartsWith(srv.path, <<"/", "i", "n", "f", "o", "/">>)
        THEN srv.ctype = "text/plain; charset=utf-8"
        ELSE srv.path # ConfigJson => srv.ctype = "application/octet-stream"

\* C17: with the sparse protocol disabled, an authenticated GET of
\* /config.json is served (unless the file cannot be read), and every other
\* path is answered NotFound without the index being read.
C17_ConfigJsonAlwaysServed ==
    (Served({"sparse"}) /\ ~srv.sparse) =>
        IF srv.path = ConfigJson
        THEN (DbCheckIsUser(srv.cred) = "none" /\ ~srv.fault) =>
                (srv.status = 200 /\ srv.body = "file" /\ srv.read)
        ELSE srv.status = 404 /\ srv.body = "error" /\ ~srv.read

C17_Witness ==
    /\ Served({"sparse"}) /\ ~srv.sparse
    /\ srv.path = ConfigJson /\ srv.status = 200 /\ srv.body = "file"

\* C18: info/refs answers with the advertisement only for
\* service=git-upload-pack and answers NotFound to an authenticated request
\* for any other or no service; info/refs and git-upload-pack answer NotFound
\* without reading the index when the Git protocol is disabled; no step of a
\* request on these two endpoints changes the index.
C18_GitAnswers ==
    /\ Served({"info_refs"}) =>
          /\ srv.status = 200 =>
                (srv.service = "git-upload-pack" /\ srv.git /\ srv.body = "advertisement")
          /\ (srv.git /\ DbCheckIsUser(srv.cred) = "none" /\ srv.service # "git-upload-pack") =>
                (srv.status = 404 /\ srv.body = "error")
    /\ (Served(GitEndpoints) /\ ~srv.git) =>
          (srv.status = 404 /\ srv.body = "error" /\ ~srv.read)

C18_GitStep ==
    ((srv.ep \in GitEndpoints \/ srv'.ep \in GitEndpoints) /\ srv' # srv) =>
        UNCHANGED <<indexFiles, indexCommits>>

C18_GitUploadOnly == []C18_GitAnswers /\ [][C18_GitStep]_vars

C18_Witness ==
    /\ Served({"info_refs"}) /\ srv.git /\ DbCheckIsUser(srv.cred) = "none"
    /\ srv.service = "git-receive-pack" /\ srv.status = 404
    /\ indexCommits # <<>>

\* C19: on an index endpoint of an enabled protocol, a request whose
\* credential is rejected gets 401 with WWW-Authenticate: Basic realm=<domain>
\* and the index is not read; index content is only ever returned to an
\* authenticated caller.
C19_IndexRequiresAuth ==
    /\ (Served(Endpoints) /\ ProtocolEnabled /\ DbCheckIsUser(srv.cred) # "none") =>
          /\ srv.status = 401
          /\ srv.www = WwwAuthenticate(WebDomain)
          /\ srv.body = "error"
    /\ (srv.ep \in Endpoints /\ (srv.read \/ srv.body \in {"file", "advertisement", "pack"}
                                          \/ srv.pc = "inner")) =>
          DbCheckIsUser(srv.cred) = "none"

C19_Witness ==
    /\ Served({"sparse"}) /\ srv.sparse /\ srv.cred = "anon" /\ srv.status = 401
    /\ \E c \in Crates : srv.path = ShardPath(c) /\ indexFiles[c] # <<>>

\* C20: the download endpoint answers 403 when the facade returned 401 and
\* otherwise the facade's status unchanged; it never answers 401.
C20_DownloadNever401 ==
    Served({"download"}) =>
        /\ srv.status # 401
        /\ srv.facade = 401 => srv.status = 403
        /\ srv.facade # 401 => srv.status = srv.facade

C20_Witness ==
    /\ Served({"download"}) /\ srv.cred = "anon" /\ srv.facade = 401 /\ srv.status = 403
    /\ storage[srv.key] # 0
Undocumented(k) == db.versions[k].present /\ db.versions[k].docs = "queued"

JobsFor(k) ==
    Cardinality({i \in 1..Len(queue) : queue[i] = JobOf(k)})
        + (IF docsJob = JobOf(k) THEN 1 ELSE 0)

\* C21: whenever the application is up, every committed version whose docs
\* state is queued has exactly one job in the channel or in the worker (after
\* a restart: the one launch re-enqueued before handing the application over),
\* and every such version is eventually processed.
C21_HandedOverWithJobs ==
    boot.phase = "up" => \A k \in Keys : Undocumented(k) => JobsFor(k) = 1

C22_GitUnderMutex ==
    /\ \A p \in Procs : pc[p] = "index" => indexLock = p
    /\ (srv.pc = "inner" /\ srv.ep \in GitEndpoints) => indexLock = SrvTask
    /\ \A p, q \in Procs : (pc[p] = "index" /\ pc[q] = "index") => p = q
    /\ \A p \in Procs : pc[p] = "index" => ~(srv.pc = "inner" /\ srv.ep \in GitEndpoints)

\* A Git read waits for the mutex while a publish is in its index mutation.
C22_Witness ==
    /\ srv.pc = "lock" /\ srv.ep \in GitEndpoints
    /\ \E p \in Procs : pc[p] = "index" /\ indexLock = p

IsPrefix(a, b) == Len(a) <= Len(b) /\ SubSeq(b, 1, Len(a)) = a

\* C23: the task serving a sparse read holds the index mutex from the opening
\* of the file to the end of its read, and the lines served are a content the
\* file had between two index mutations.
C23_SparseReadUnderMutex ==
    /\ (srv.ep = "sparse" /\ srv.pc \in {"inner", "stream"}) => indexLock = SrvTask
    /\ (srv.ep = "sparse" /\ srv.pc \in {"stream", "done"}) =>
          IsPrefix(srv.bytes, FileLines(indexFiles, srv.path))
\* C24: a version committed in the metadata store stays committed in every
\* step (yank only sets its flag), and a publish that is about to commit the
\* insert of a (crate, version) row finds no committed row of that pair: a
\* pair is inserted at most once.
C24_VersionsStep ==
    \A k \in Keys : db.versions[k].present => db'.versions[k].present

C24_InsertedOnce ==
    \A p \in Procs :
        (req[p].op = "publish" /\ pc[p] = "commit") => ~db.versions[req[p].key].present

C24_VersionsOnlyGrow == []C24_InsertedOnce /\ [][C24_VersionsStep]_vars

\* A yank was committed on a version, which is still there.
C24_Witness ==
    \E k \in Keys : db.versions[k].present /\ db.versions[k].yanked /\ hist[k].ok = 1
\* C25: the target list of every crate holds only whitelisted targets; a
\* set_crate_targets naming a target outside the whitelist, at any position,
\* leaves every list as it was and answers InvalidRequest to an authenticated
\* caller.
C25_TargetsListed ==
    \A c \in Crates : \A i \in 1..Len(tgt[c]) : tgt[c][i] \in BuiltinTargets

C25_TargetsStep ==
    (own'.op = "targets" /\ own' # own
        /\ \E i \in 1..Len(own'.arg) : own'.arg[i] \notin BuiltinTargets) =>
            /\ tgt' = tgt
            /\ own'.kind # "Ok"
            /\ own'.by \in own.users => own'.kind = "InvalidRequest"

C25_TargetsWithinWhitelist == []C25_TargetsListed /\ [][C25_TargetsStep]_vars

\* A request whose second target is unknown was refused; the list set before
\* is still there.
C25_Witness ==
    /\ own.op = "targets" /\ own.kind = "InvalidRequest"
    /\ own.arg = <<"x86_64-unknown-linux-gnu", "wasm64-unknown-none">>
    /\ tgt["foo"] = <<"x86_64-unknown-linux-gnu">>
\* C26: no task of the facade aborts with a panic; a get_crate_info whose
\* joined version list is empty ends with the error NotFound.
C26_NoPanic ==
    \A p \in Procs :
        /\ res[p].kind # "Panic"
        /\ (req[p].op = "info" /\ pc[p] = "rollback" /\ res[p].at = "info_meta"
                /\ JoinVersions(seen[p]) = <<>>) => res[p].kind = "NotFound"
Unauthenticated(p) == pc[p] # "idle" /\ DbCheckIsUser(req[p].cred) # "none"

\* C27: a task whose caller fails the authentication never gets past it: it
\* holds neither the write transaction nor the index mutex, it ends with
\* Unauthorized returned at the authentication, and none of its steps changes
\* the metadata store, the artifact store, the index or the job queue.
C27_StoppedAtAuth ==
    \A p \in Procs : Unauthenticated(p) =>
        /\ pc[p] \in {"auth", "rollback"}
        /\ dbWriter # p /\ indexLock # p
        /\ pc[p] = "rollback" => (res[p].kind = "Unauthorized" /\ res[p].at = "auth")

C27_UnauthenticatedStep ==
    \A p \in Procs : (Unauthenticated(p) /\ pc'[p] # pc[p]) =>
        UNCHANGED <<db, dbWork, storage, indexFiles, indexCommits, queue>>

C27_AuthenticatesFirst == []C27_StoppedAtAuth /\ [][C27_UnauthenticatedStep]_vars

\* An anonymous publish was answered Unauthorized on a registry holding a crate.
C27_Witness ==
    \E p \in Procs :
        /\ req[p].op = "publish" /\ req[p].cred = "anon" /\ req[p].valid
        /\ pc[p] = "rollback" /\ res[p].kind = "Unauthorized"
        /\ db.crates # {}
BadArchive(p) == pc[p] # "idle" /\ req[p].op = "publish" /\ ~req[p].valid

\* C29: a publish whose archive does not parse never gets past the parsing:
\* it holds neither the write transaction nor the index mutex and none of its
\* steps changes the metadata store, the artifact store, the index or the job
\* queue; it ends with InvalidRequest, or with Unauthorized when its
\* credentials are bad too.
C29_StoppedAtParsing ==
    \A p \in Procs : BadArchive(p) =>
        /\ pc[p] \in {"auth", "rollback"}
        /\ dbWriter # p /\ indexLock # p
        /\ pc[p] = "rollback" =>
              /\ res[p].at = "auth"
              /\ res[p].kind = IF DbCheckIsUser(req[p].cred) = "none"
                               THEN "InvalidRequest" ELSE "Unauthorized"

C29_BadArchiveStep ==
    \A p \in Procs : (BadArchive(p) /\ pc'[p] # pc[p]) =>
        UNCHANGED <<db, dbWork, storage, indexFiles, indexCommits, indexLock, queue>>

C30_LockOnlyForIndex ==
    \A p \in Procs :
        /\ (req[p].op = "publish" /\ indexLock = p) => pc[p] = "index"
        /\ (req[p].op = "publish" /\ pc[p] \in {"db", "store", "targets", "send"}) => indexLock # p
YankCalls == {"yank", "unyank"}

\* The version the last yank or unyank call named.
LastYankKey == CHOOSE k \in Keys : own.arg = {k}

\* A step of a yank or unyank call that changed the answer or the store.
YankStep ==
    /\ own'.op \in YankCalls
    /\ nreq' = nreq /\ srv' = srv
    /\ own' # own \/ db' # db

\* C28: after a sequence of yank and unyank calls on a published version, the
\* flag is the one the last successful call asked for; a call that finds the
\* flag already as asked answers the no-op outcome and changes nothing, a call
\* answered Ok changes the flag alone, and no call changes a download counter.
C28_FlagIsLastCall ==
    (own.op \in YankCalls /\ own.kind \in {"Ok", "NoOp"}) =>
        /\ db.versions[LastYankKey].present
        /\ db.versions[LastYankKey].yanked = (own.op = "yank")

C28_YankStep ==
    YankStep =>
        LET k == CHOOSE x \in Keys : own'.arg = {x}
        IN /\ \A x \in Keys : db'.versions[x].dl = db.versions[x].dl
           /\ own'.kind = "NoOp" =>
                 (db' = db /\ db.versions[k].yanked = (own'.op = "yank"))
           /\ own'.kind = "Ok" =>
                 /\ db.versions[k].yanked # (own'.op = "yank")
                 /\ db' = DbSetYanked(db, k, own'.op = "yank")
           /\ own'.kind \notin {"Ok", "NoOp"} => db' = db

C28_YankSequences == []C28_FlagIsLastCall /\ [][C28_YankStep]_vars

\* A downloaded version was yanked, and yanked again.
C28_Witness ==
    /\ own.op = "yank" /\ own.kind = "NoOp"
    /\ db.versions[LastYankKey].yanked /\ db.versions[LastYankKey].dl = 1
\* A publish task hands its job to the channel and returns Ok from the closure.
SendsJob(p) == req[p].op = "publish" /\ pc[p] = "send" /\ pc'[p] = "commit"

\* A publish task reads the crate's targets.
ReadsTargets(p) == req[p].op = "publish" /\ pc[p] = "targets" /\ pc'[p] = "send"

\* C31: a publish reaches the end of its closure only by sending one docs job,
\* which carries the name and the version of the request and the target list
\* the task read from the metadata store after the index commit, inside its
\* transaction; no other step of a publish, failing ones included, adds a job.
C31_JobStep ==
    /\ \A p \in Procs :
          ReadsTargets(p) =>
              /\ HasPublishCommit(req[p].key)
              /\ dbWriter = p
              /\ req'[p].targets = tgt[req[p].key[1]]
    /\ \A p \in Procs :
          SendsJob(p) =>
              /\ queue' = Append(queue, [name |-> req[p].key[1],
                                         version |-> req[p].key[2],
                                         targets |-> tgt[req[p].key[1]]])
              /\ dbWriter = p
    /\ \A p \in Procs :
          (req'[p].op = "publish" /\ pc'[p] = "commit" /\ pc[p] # "commit") => pc[p] = "send"
    /\ (\A p \in Procs : ~SendsJob(p)) => queue' = queue

C31_OneJobPerPublish == [][C31_JobStep]_vars

\* The second version of a crate with a target list was published: both jobs
\* are in the channel and the second carries the list.
C31_Witness ==
    /\ Len(queue) = 2
    /\ queue[2].targets # <<>>
    /\ hist[<<queue[2].name, queue[2].version>>].ok = 1
    /\ \A p \in Procs : pc[p] = "idle"
\* C32: publishes, get_crate_info requests and index requests that share the
\* connection pool and the index mutex never wait for each other for ever:
\* every request that has arrived is eventually answered.
C32_AllComplete ==
    /\ \A p \in Procs : (pc[p] # "idle") ~> (pc[p] = "idle")
    /\ (srv.pc # "idle") ~> (srv.pc = "idle")

C32_PoolNeverOverdrawn == ConnectionsInUse <= DB_MAX_CONNECTIONS

PastIncrement(p) ==
    /\ req[p].op = "download"
    /\ pc[p] = "read" \/ (pc[p] = "rollback" /\ res[p].at = "read")

\* C33: a get_crate_content that raised the counter and then fails to read
\* the tarball holds its increment in its own uncommitted transaction, and no
\* step it takes from there, its rollback included, changes the committed
\* counters; a get_crate_content for a version that does not exist fails with
\* NotFound at the lookup, without having written anything.
C33_PendingIncrement ==
    \A p \in Procs :
        PastIncrement(p) =>
            /\ dbWriter = p
            /\ dbWork = DbIncrementDlCount(db, req[p].key)

C33_DownloadStep ==
    \A p \in Procs :
        /\ (PastIncrement(p) /\ pc'[p] # "commit") => db' = db
        /\ (PastIncrement(p) /\ pc'[p] = "idle") => dbWork' = db
        /\ (req[p].op = "download" /\ pc[p] = "db" /\ pc'[p] # "db"
                /\ ~View(p).versions[req[p].key].present)
              => /\ pc'[p] \in {"rollback", "idle"}
                 /\ pc'[p] = "rollback" => res'[p].kind \in {"NotFound", "Internal"}
                 /\ dbWork' = dbWork /\ dbWriter' = dbWriter /\ db' = db

C33_FailedDownloadNotCounted == []C33_PendingIncrement /\ [][C33_DownloadStep]_vars

\* The counter was raised in the transaction and the tarball is missing.
C33_Witness ==
    \E p \in Procs :
        /\ req[p].op = "download" /\ pc[p] = "rollback"
        /\ res[p].at = "read" /\ res[p].kind = "NotFound"
        /\ dbWork.versions[req[p].key].dl = db.versions[req[p].key].dl + 1
\* The migrations whose target is above the version recorded when the run of
\* migrate_db began, in the order of the list.
NewerMigrations ==
    SelectSeq([i \in 1..NumMigrations |-> i],
              LAMBDA i : \/ mig.v0 = NoVersion
                         \/ ~VersionGeq(VersionNumber(mig.v0),
                                        VersionNumber(MIGRATIONS[i].target)))

MigrateDone == mig.pc \in {"ok", "err"}

\* C34: when migrate_db returns Ok the recorded version is the target of the
\* last migration; and the run that follows a run that returned Ok attempts no
\* migration and leaves the table, the version and the schema as it found them.
C34_MigratesToLast ==
    /\ mig.pc = "ok" => mig.version = MIGRATIONS[NumMigrations].target
    /\ (MigrateDone /\ mig.prev = "Ok") =>
          /\ mig.att = <<>>
          /\ mig.version = mig.v0 /\ mig.schema = mig.s0 /\ mig.table = mig.t0

\* C35: a run of migrate_db attempts the migrations whose target is above the
\* recorded version, in list order and each once (all of them when it returns
\* Ok, the first ones when a migration fails), and none when the recorded
\* version cannot be read as a version.
C35_AppliesNewerOnly ==
    MigrateDone =>
        IF mig.v0 # NoVersion /\ ~VersionParses(mig.v0) THEN mig.att = <<>>
        ELSE /\ IsPrefix(mig.att, NewerMigrations)
             /\ mig.pc = "ok" => mig.log = NewerMigrations

\* C36: when migration k fails the run stops there: the recorded version is
\* the target of the migration before k if this run applied it and the one
\* found otherwise, the schema has the effects of the migrations applied
\* before k only, and the next run starts with migration k.
C36_FailedMigration ==
    /\ (mig.pc = "err" /\ mig.fail # 0) =>
          /\ mig.att = Append(mig.log, mig.fail)
          /\ mig.schema = mig.s0 \o mig.log
          /\ mig.version = IF mig.log = <<>> THEN mig.v0
                           ELSE MIGRATIONS[mig.fail - 1].target
          /\ mig.log # <<>> => mig.log[Len(mig.log)] = mig.fail - 1
    /\ (MigrateDone /\ mig.prevFail # 0) =>
          /\ mig.pc = "ok" => mig.att # <<>>
          /\ mig.att # <<>> => mig.att[1] = mig.prevFail
AuthDone == auth.pc = "done"

ReservedToken ==
    auth.token.some /\ auth.token.id = SelfServiceLogin /\ auth.token.secret = SelfServiceToken

\* C37: the reserved internal token yields the principal of uid -1 with
\* neither the write nor the admin capability, whatever the token table
\* holds and without reading it; any other token is decided by the token
\* table: accepted as the user of the row with its id and secret, refused as
\* Unauthorized when there is no such row.
C37_ReservedToken ==
    (AuthDone /\ auth.token.some) =>
        IF ReservedToken
        THEN /\ auth.out.kind = "Ok"
             /\ auth.out.user.uid = -1
             /\ auth.out.user.principal = SelfServiceLogin
             /\ ~auth.out.user.can_write /\ ~auth.out.user.can_admin
             /\ "tokens" \notin auth.out.consulted
        ELSE /\ "tokens" \in auth.out.consulted
             /\ auth.out.kind = "Ok" =>
                   \E r \in auth.rows : /\ r.id = auth.token.id
                                        /\ r.secret = auth.token.secret
                                        /\ r.user = auth.out.user
             /\ auth.out.kind # "Ok" =>
                   /\ auth.out.kind = "Unauthorized"
                   /\ ~\E r \in auth.rows : r.id = auth.token.id /\ r.secret = auth.token.secret

\* The reserved token was presented while the token table held a row with
\* the same id and secret and every capability.
C37_Witness ==
    /\ AuthDone /\ ReservedToken
    /\ \E r \in auth.rows : r.id = SelfServiceLogin /\ r.secret = SelfServiceToken
                               /\ r.user.can_admin

\* C38: a request that carries a token is decided without its cookie, so one
\* with a token that is neither the reserved one nor in the token table is
\* Unauthorized even with the cookie of a user; a request without token is
\* accepted only as the user of its cookie and only if that principal is a
\* user of the metadata store.
C38_TokenAlone ==
    AuthDone =>
        /\ auth.token.some =>
              /\ "cookie" \notin auth.out.consulted
              /\ (~ReservedToken /\ ~\E r \in auth.rows : /\ r.id = auth.token.id
                                                           /\ r.secret = auth.token.secret)
                    => auth.out.kind = "Unauthorized"
        /\ (~auth.token.some /\ auth.out.kind = "Ok") =>
              /\ auth.cookie.state = "user"
              /\ auth.out.user = auth.cookie.user
              /\ auth.cookie.user.principal \in Registered
              /\ "users" \in auth.out.consulted
        /\ (~auth.token.some /\ auth.cookie.state = "user"
                /\ auth.cookie.user.principal \notin Registered) => auth.out.kind # "Ok"

\* A refused token came with the cookie of a registered user.
C38_Witness ==
    /\ AuthDone /\ auth.token.some /\ auth.out.kind = "Unauthorized"
    /\ auth.cookie.state = "user" /\ auth.cookie.user.principal \in Registered
====
